---- MODULE Spec2Model ----
(***************************************************************************)
(* A model of github.com/rclark/logs: context-scoped log entries, the      *)
(* freeform dotted-key mutator, option resolution and the JSON printer.    *)
(*                                                                         *)
(* Go values are records tagged by their dynamic type in field t; every    *)
(* type keeps its payload under a field name of its own.  A Go map is a    *)
(* TLA+ function from key strings to values.  Marshalled JSON is a         *)
(* sequence of lexemes: the punctuation bytes, and one lexeme per string,  *)
(* number and keyword.                                                     *)
(***************************************************************************)
EXTENDS Integers, Sequences, FiniteSets, TLC

VARIABLES
    ctxs,     \* the context tree: ctxs[i] is the i-th context.WithValue node
    entries,  \* the heap of entry[T] values the context nodes point to
    out,      \* the writes the output sinks accepted, in order
    errc,     \* the messages written to os.Stderr, in order
    hist,     \* the last two calls, oldest first
    nops,     \* the number of calls made so far
    mws,      \* the middlewares built so far: their kind and resolved options
    reqs,     \* the requests the middlewares took: progress and captured data
    procs     \* the goroutines calling Add and Append on one entry at once

vars == <<ctxs, entries, out, errc, hist, nops, mws, reqs, procs>>

(***************************************************************************)
(* Bounds                                                                  *)
(***************************************************************************)
MaxOps == 3
MaxCtx == 2
MaxCalls == 2

(***************************************************************************)
(* Levels                                                                  *)
(***************************************************************************)
DEBUG == 0
INFO == 1
WARN == 2
ERROR == 3
FATAL == 4

LevelString(l) ==
    CASE l = DEBUG -> "DEBUG"
      [] l = INFO -> "INFO"
      [] l = WARN -> "WARN"
      [] l = ERROR -> "ERROR"
      [] l = FATAL -> "FATAL"
      [] OTHER -> "UNKNOWN"

(***************************************************************************)
(* Go values                                                               *)
(***************************************************************************)
Nil == [t |-> "nil"]
StrV(s) == [t |-> "string", s |-> s]
IntV(n) == [t |-> "int", n |-> n]
BoolV(b) == [t |-> "bool", b |-> b]
Chan == [t |-> "chan"]
\* []et; a slice without elements is the nil slice (no call of the package
\* makes an empty non-nil one).
Slice(et, elems) == [t |-> "slice", et |-> et, elems |-> elems]
\* map[string]any
MapAny(m) == [t |-> "map", m |-> m]
\* FreeformEntry: the defined type, distinct from map[string]any
FreeformEntry(m) == [t |-> "FreeformEntry", m |-> m]

\* HttpData, the struct the freeform middleware stores under @http; Headers
\* is a map[string]string (nil and empty alike are the empty function),
\* Duration a number of nanoseconds
HttpData(method, path, headers, body, duration) ==
    [t |-> "HttpData", Method |-> method, Path |-> path, Headers |-> headers,
     Body |-> body, Duration |-> duration]

EmptyMap == <<>>

\* m[k] = v
MapSet(m, k, v) == [x \in DOMAIN m \cup {k} |-> IF x = k THEN v ELSE m[x]]

newFreeformEntry == FreeformEntry(EmptyMap)

\* EntryMaker of a Logger[[]string]
NewList == Slice("string", <<>>)

(***************************************************************************)
(* Dotted keys.  strings.Split(key, ".") on the keys the model uses.       *)
(***************************************************************************)
Split(key) ==
    CASE key = "" -> <<"">>
      [] key = "a" -> <<"a">>
      [] key = "b" -> <<"b">>
      [] key = "a.b" -> <<"a", "b">>
      [] key = "a.c" -> <<"a", "c">>
      [] key = "a.b.c" -> <<"a", "b", "c">>
      [] key = "@level" -> <<"@level">>
      [] key = "@time" -> <<"@time">>
      [] key = "@http" -> <<"@http">>

(***************************************************************************)
(* keyValue.adjust: walk the segments from the root map, then apply the    *)
(* leaf operation at the last one.  A leaf operation is                    *)
(*   [leaf |-> "set", value |-> v]              (Add's closure)            *)
(*   [leaf |-> "append", et |-> T, values |-> s] (Append's closure)        *)
(* The result is the map after the call, whether the closure reported a    *)
(* change (Append's adjusted flag), and how many of the segments before    *)
(* the last got a map made by make(map[string]any).                        *)
(***************************************************************************)
LeafSet(v) == [leaf |-> "set", value |-> v]
LeafAppend(et, values) == [leaf |-> "append", et |-> et, values |-> values]

\* mutant: Add's closure keeps a leaf that is already there
applyLeaf_keepExisting(m, k, op) ==
    IF op.leaf = "set"
    THEN [m |-> IF k \in DOMAIN m THEN m ELSE MapSet(m, k, op.value),
          adjusted |-> TRUE]
    ELSE IF k \notin DOMAIN m
         THEN [m |-> MapSet(m, k, Slice(op.et, op.values)), adjusted |-> TRUE]
         ELSE IF m[k].t = "slice" /\ m[k].et = op.et
              THEN [m |-> MapSet(m, k, Slice(op.et, m[k].elems \o op.values)),
                    adjusted |-> TRUE]
              ELSE [m |-> m, adjusted |-> FALSE]

\* mutant: Append's closure does nothing for a key that is not there
applyLeaf_absentIgnored(m, k, op) ==
    IF op.leaf = "set"
    THEN [m |-> MapSet(m, k, op.value), adjusted |-> TRUE]
    ELSE IF k \in DOMAIN m /\ m[k].t = "slice" /\ m[k].et = op.et
         THEN [m |-> MapSet(m, k, Slice(op.et, m[k].elems \o op.values)),
               adjusted |-> TRUE]
         ELSE [m |-> m, adjusted |-> FALSE]

applyLeaf(m, k, op) ==
    IF op.leaf = "set"
    THEN [m |-> MapSet(m, k, op.value), adjusted |-> TRUE]
    ELSE IF k \notin DOMAIN m
         THEN [m |-> MapSet(m, k, Slice(op.et, op.values)), adjusted |-> TRUE]
         ELSE IF m[k].t = "slice" /\ m[k].et = op.et
              THEN [m |-> MapSet(m, k, Slice(op.et, m[k].elems \o op.values)),
                    adjusted |-> TRUE]
              ELSE [m |-> m, adjusted |-> FALSE]

RECURSIVE walk(_, _, _)
walk(current, split, op) ==
    IF Len(split) = 1
    THEN applyLeaf(current, split[1], op) @@ [made |-> 0]
    ELSE LET sub == Head(split)
             c1 == IF sub \in DOMAIN current
                   THEN current
                   ELSE MapSet(current, sub, FreeformEntry(EmptyMap))
             nested == IF c1[sub].t = "map" THEN c1[sub].m ELSE EmptyMap
             r == walk(nested, Tail(split), op)
         IN [m |-> MapSet(c1, sub, MapAny(r.m)), adjusted |-> r.adjusted,
             made |-> r.made + (IF c1[sub].t = "map" THEN 0 ELSE 1)]

keyValue_adjust(e, key, op) == walk(e, Split(key), op)

(***************************************************************************)
(* toKeyValues pairs up Add's arguments.  A pair whose key is not a string *)
(* keeps the zero keyValue.  With an odd number of arguments whose last    *)
(* one is a string, args[i+1] is out of range and the call panics.         *)
(***************************************************************************)
zeroKeyValue == [Key |-> "", Value |-> Nil]

\* mutant: a pair whose key is not a string is left out
toKeyValues_skipsNonString(args) ==
    [kvs |-> SelectSeq([j \in 1..(Len(args) \div 2) |->
                          IF args[2 * j - 1].t = "string"
                          THEN [Key |-> args[2 * j - 1].s, Value |-> args[2 * j]]
                          ELSE [Key |-> "", Value |-> Chan]],
                       LAMBDA kv : kv.Value # Chan),
     panicked |-> Len(args) % 2 = 1 /\ args[Len(args)].t = "string"]

toKeyValues(args) ==
    [kvs |-> [j \in 1..(Len(args) \div 2) |->
                 IF args[2 * j - 1].t = "string"
                 THEN [Key |-> args[2 * j - 1].s, Value |-> args[2 * j]]
                 ELSE zeroKeyValue],
     panicked |-> Len(args) % 2 = 1 /\ args[Len(args)].t = "string"]

\* mutant: the pairs are applied last to first
RECURSIVE keyValues_adjust_lastFirst(_, _)
keyValues_adjust_lastFirst(e, kvs) ==
    IF Len(kvs) = 0
    THEN e
    ELSE keyValue_adjust(keyValues_adjust_lastFirst(e, Tail(kvs)),
                         Head(kvs).Key, LeafSet(Head(kvs).Value)).m

\* keyValues.adjust: every pair in order, each through keyValue.adjust
RECURSIVE keyValues_adjust(_, _)
keyValues_adjust(e, kvs) ==
    IF Len(kvs) = 0
    THEN e
    ELSE keyValues_adjust(
             keyValue_adjust(e, Head(kvs).Key, LeafSet(Head(kvs).Value)).m,
             Tail(kvs))

(***************************************************************************)
(* Time.  An instant has seconds and nanoseconds; time.RFC3339 prints the  *)
(* seconds only.                                                           *)
(***************************************************************************)
ZeroTime == [sec |-> 0, nsec |-> 0]

Instants == {[sec |-> s, nsec |-> n] : s \in {0, 1}, n \in {0, 1}}

FormatRFC3339(t) ==
    CASE t.sec = 0 -> "0001-01-01T00:00:00Z"
      [] t.sec = 1 -> "0001-01-01T00:00:01Z"

(***************************************************************************)
(* Options                                                                 *)
(***************************************************************************)
WithOutput(w) == [o |-> "WithOutput", w |-> w]
WithLevel(level) == [o |-> "WithLevel", level |-> level]
WithCurrentTime(now) == [o |-> "WithCurrentTime", now |-> now]
WithDefaultLevel(level) == [o |-> "WithDefaultLevel", level |-> level]
WithTiming(now, since) == [o |-> "WithTiming", now |-> now, since |-> since]
WithBody == [o |-> "WithBody"]
WithAllHeaders == [o |-> "WithAllHeaders"]
WithHeaders(headers) == [o |-> "WithHeaders", headers |-> headers]
\* mutant: the closure passes the defaults on, not the resolved options
Options_defaults(opt) ==
    [o |-> "options",
     opt |-> [out |-> "stdout", entryLevel |-> 1, printLevel |-> 1,
              timer |-> [kind |-> "default", now |-> [sec |-> 0, nsec |-> 0],
                         since |-> 0],
              body |-> FALSE, allHeaders |-> FALSE, someHeaders |-> <<>>,
              now |-> [sec |-> 0, nsec |-> 0], since |-> 0, fakeTime |-> FALSE]]

\* the closure the middlewares pass on: func(o *option) { *o = opt }
Options(opt) == [o |-> "options", opt |-> opt]

defaultTimer == [kind |-> "default", now |-> ZeroTime, since |-> 0]
fakeTimer(now, since) == [kind |-> "fake", now |-> now, since |-> since]

\* the option struct as applyOptions first builds it
defaultOption ==
    [out |-> "stdout", entryLevel |-> INFO, printLevel |-> INFO,
     timer |-> defaultTimer, body |-> FALSE, allHeaders |-> FALSE,
     someHeaders |-> <<>>, now |-> ZeroTime, since |-> 0, fakeTime |-> FALSE]

applyOption(o, opt) ==
    CASE opt.o = "WithOutput" -> [o EXCEPT !.out = opt.w]
      [] opt.o = "WithLevel" -> [o EXCEPT !.printLevel = opt.level]
      [] opt.o = "WithCurrentTime" -> [o EXCEPT !.now = opt.now, !.fakeTime = TRUE]
      [] opt.o = "WithDefaultLevel" -> [o EXCEPT !.entryLevel = opt.level]
      [] opt.o = "WithTiming" ->
            [o EXCEPT !.now = opt.now, !.since = opt.since, !.fakeTime = TRUE]
      [] opt.o = "WithBody" -> [o EXCEPT !.body = TRUE]
      [] opt.o = "WithAllHeaders" -> [o EXCEPT !.allHeaders = TRUE]
      [] opt.o = "WithHeaders" -> [o EXCEPT !.someHeaders = opt.headers]
      [] opt.o = "options" -> opt.opt

\* mutant: the options are applied last to first, so the first one wins
RECURSIVE foldOptions_firstWins(_, _)
foldOptions_firstWins(o, opts) ==
    IF Len(opts) = 0
    THEN o
    ELSE applyOption(foldOptions_firstWins(o, Tail(opts)), Head(opts))

RECURSIVE foldOptions(_, _)
foldOptions(o, opts) ==
    IF Len(opts) = 0 THEN o ELSE foldOptions(applyOption(o, Head(opts)), Tail(opts))

applyOptions(opts) ==
    LET o == foldOptions(defaultOption, opts)
    IN IF o.fakeTime THEN [o EXCEPT !.timer = fakeTimer(o.now, o.since)] ELSE o

\* Timer.Now(): the fake timer's instant, else the wall clock's reading
TimerNow(timer, wall) == IF timer.kind = "fake" THEN timer.now ELSE wall

\* the nanoseconds from instant t to instant u
Sub(u, t) == (u.sec - t.sec) * 1000000000 + (u.nsec - t.nsec)

\* Timer.Since(t): the fake timer's duration, else the time from t to the
\* wall clock's reading
TimerSince(timer, t, wall) == IF timer.kind = "fake" THEN timer.since ELSE Sub(wall, t)

(***************************************************************************)
(* json.Marshal.  Map keys are written in sorted order, struct fields in   *)
(* declaration order; a channel anywhere in the value is an error and      *)
(* nothing is produced.                                                    *)
(***************************************************************************)
\* the byte order of the key strings the model uses
KeyOrder ==
    <<"", "@http", "@level", "@time", "X-Header", "Y-Header", "a", "b", "c",
      "x-header">>

sortedKeys(m) == SelectSeq(KeyOrder, LAMBDA k : k \in DOMAIN m)

Quote(s) == "\"" \o s \o "\""

RECURSIVE unsupported(_)
unsupported(v) ==
    CASE v.t = "chan" -> TRUE
      [] v.t = "slice" -> \E i \in DOMAIN v.elems : unsupported(v.elems[i])
      [] v.t \in {"map", "FreeformEntry"} -> \E k \in DOMAIN v.m : unsupported(v.m[k])
      [] OTHER -> FALSE

\* a map[string]string
RECURSIVE encodeHeaders(_, _)
encodeHeaders(m, keys) ==
    IF Len(keys) = 0
    THEN <<>>
    ELSE <<Quote(keys[1]), ":", Quote(m[keys[1]])>>
         \o (IF Len(keys) = 1 THEN <<>> ELSE <<",">> \o encodeHeaders(m, Tail(keys)))

\* HttpData: the fields in declaration order; headers and body are omitempty
encodeHttpData(v) ==
    <<"{", Quote("method"), ":", Quote(v.Method), ",",
      Quote("path"), ":", Quote(v.Path)>>
    \o (IF DOMAIN v.Headers # {}
        THEN <<",", Quote("headers"), ":", "{">>
             \o encodeHeaders(v.Headers, sortedKeys(v.Headers)) \o <<"}">>
        ELSE <<>>)
    \o (IF v.Body # "" THEN <<",", Quote("body"), ":", Quote(v.Body)>> ELSE <<>>)
    \o <<",", Quote("duration"), ":", ToString(v.Duration), "}">>

RECURSIVE encode(_), encodeElems(_), encodeFields(_, _)
encode(v) ==
    CASE v.t = "nil" -> <<"null">>
      [] v.t = "string" -> <<Quote(v.s)>>
      [] v.t = "int" -> <<ToString(v.n)>>
      [] v.t = "bool" -> <<IF v.b THEN "true" ELSE "false">>
      [] v.t = "slice" ->
            IF Len(v.elems) = 0
            THEN <<"null">>
            ELSE <<"[">> \o encodeElems(v.elems) \o <<"]">>
      [] v.t \in {"map", "FreeformEntry"} ->
            <<"{">> \o encodeFields(v.m, sortedKeys(v.m)) \o <<"}">>
      [] v.t = "HttpData" -> encodeHttpData(v)

encodeElems(elems) ==
    IF Len(elems) = 1
    THEN encode(elems[1])
    ELSE encode(elems[1]) \o <<",">> \o encodeElems(Tail(elems))

encodeFields(m, keys) ==
    IF Len(keys) = 0
    THEN <<>>
    ELSE <<Quote(keys[1]), ":">> \o encode(m[keys[1]])
         \o (IF Len(keys) = 1 THEN <<>> ELSE <<",">> \o encodeFields(m, Tail(keys)))

\* mutant: a value that cannot be marshalled yields the text produced so far
Marshal_partial(v) ==
    IF unsupported(v)
    THEN [err |-> FALSE, data |-> <<"{">>]
    ELSE [err |-> FALSE, data |-> encode(v)]

Marshal(v) ==
    IF unsupported(v)
    THEN [err |-> TRUE, data |-> <<>>]
    ELSE [err |-> FALSE, data |-> encode(v)]

\* bytes.Index(data, sep) for a one-byte sep: the first position holding
\* it, counted from 0, or -1
bytesIndex(data, sep) ==
    IF \E i \in DOMAIN data : data[i] = sep
    THEN (CHOOSE i \in DOMAIN data :
              data[i] = sep /\ \A j \in 1..(i - 1) : data[j] # sep) - 1
    ELSE -1

(***************************************************************************)
(* Contexts.  Context 0 is context.Background(); ctxs[i] is the node a     *)
(* context.WithValue call made on top of ctxs[i].parent.                   *)
(***************************************************************************)
eKey == "eKey"
lKey == "lKey"

\* ctx.Value(key): the nearest node up the chain stored under key, 0 if none
RECURSIVE ctxValue(_, _)
ctxValue(c, key) ==
    IF c = 0
    THEN 0
    ELSE IF ctxs[c].key = key THEN ctxs[c].val ELSE ctxValue(ctxs[c].parent, key)

\* getEntry[T]: the value under eKey, if it is a *entry[T]; 0 is nil
getEntry(c, shape) ==
    LET v == ctxValue(c, eKey)
    IN IF v # 0 /\ entries[v].shape = shape THEN v ELSE 0

\* the EntryMaker of each shape
create(shape) ==
    CASE shape = "FreeformEntry" -> newFreeformEntry
      [] shape = "List" -> NewList

(***************************************************************************)
(* The calls.  Each is an operator from the current state to a result:    *)
(* what the call returned (ok), whether it panicked, and the heap, the     *)
(* sink and the error channel after it.                                    *)
(***************************************************************************)
Res(ok, es, o, ec) ==
    [ok |-> ok, panicked |-> FALSE, entries |-> es, out |-> o, errc |-> ec]

Panic == [ok |-> FALSE, panicked |-> TRUE, entries |-> entries, out |-> out, errc |-> errc]

NotFound == Res(FALSE, entries, out, errc)

\* mutant: the setter takes the entry under eKey whatever its shape
debug_anyShape(c, shape) ==
    LET e == ctxValue(c, eKey)
    IN IF e # 0
       THEN Res(TRUE, [entries EXCEPT ![e].level = DEBUG], out, errc)
       ELSE NotFound

debug(c, shape) ==
    LET e == getEntry(c, shape)
    IN IF e # 0
       THEN Res(TRUE, [entries EXCEPT ![e].level = DEBUG], out, errc)
       ELSE NotFound

\* mutant: the setter also resets the data of the entry
info_resetsData(c, shape) ==
    LET e == getEntry(c, shape)
    IN IF e # 0
       THEN Res(TRUE,
                [entries EXCEPT ![e].level = INFO,
                                ![e].data = IF shape = "List"
                                            THEN NewList ELSE newFreeformEntry],
                out, errc)
       ELSE NotFound

info(c, shape) ==
    LET e == getEntry(c, shape)
    IN IF e # 0
       THEN Res(TRUE, [entries EXCEPT ![e].level = INFO], out, errc)
       ELSE NotFound

\* mutant: the setter raises the level and never lowers it
warn_onlyRaises(c, shape) ==
    LET e == getEntry(c, shape)
    IN IF e # 0
       THEN Res(TRUE,
                [entries EXCEPT ![e].level = IF @ < WARN THEN WARN ELSE @],
                out, errc)
       ELSE NotFound

warn(c, shape) ==
    LET e == getEntry(c, shape)
    IN IF e # 0
       THEN Res(TRUE, [entries EXCEPT ![e].level = WARN], out, errc)
       ELSE NotFound

err(c, shape) ==
    LET e == getEntry(c, shape)
    IN IF e # 0
       THEN Res(TRUE, [entries EXCEPT ![e].level = ERROR], out, errc)
       ELSE NotFound

fatal(c, shape) ==
    LET e == getEntry(c, shape)
    IN IF e # 0
       THEN Res(TRUE, [entries EXCEPT ![e].level = FATAL], out, errc)
       ELSE NotFound

\* Mutator functions a caller hands to Adjust:
\*   [fn |-> "put", key, value]  func(e *FreeformEntry) { (*e)[key] = value }
\*   [fn |-> "push", value]      func(l *[]string) { *l = append(*l, value) }
Put(key, value) == [fn |-> "put", key |-> key, value |-> value]
Push(value) == [fn |-> "push", value |-> value]

applyFn(data, f) ==
    CASE f.fn = "put" -> [data EXCEPT !.m = MapSet(@, f.key, f.value)]
      [] f.fn = "push" -> [data EXCEPT !.elems = Append(@, f.value)]

\* mutant: the mutators are applied last to first
RECURSIVE applyFns_lastFirst(_, _)
applyFns_lastFirst(data, fns) ==
    IF Len(fns) = 0
    THEN data
    ELSE applyFn(applyFns_lastFirst(data, Tail(fns)), Head(fns))

RECURSIVE applyFns(_, _)
applyFns(data, fns) ==
    IF Len(fns) = 0 THEN data ELSE applyFns(applyFn(data, Head(fns)), Tail(fns))

\* adjust[T]
adjust(c, shape, fns) ==
    LET e == getEntry(c, shape)
    IN IF e # 0
       THEN Res(TRUE, [entries EXCEPT ![e].data = applyFns(@, fns)], out, errc)
       ELSE NotFound

\* Logger[T].GetEntry and the freeform GetEntry: entry.data, or nil (0)
GetEntry(c, shape) == getEntry(c, shape)

\* the freeform Adjust
Adjust(c, fns) ==
    LET e == getEntry(c, "FreeformEntry")
    IN IF e # 0
       THEN Res(TRUE, [entries EXCEPT ![e].data = applyFns(@, fns)], out, errc)
       ELSE NotFound

Add(c, args) ==
    LET e == GetEntry(c, "FreeformEntry")
        kv == toKeyValues(args)
    IN IF e # 0
       THEN IF kv.panicked
            THEN Panic
            ELSE Res(TRUE,
                     [entries EXCEPT ![e].data.m = keyValues_adjust(@, kv.kvs)],
                     out, errc)
       ELSE NotFound

\* Append[T](ctx, key, values...), T given as et
AppendValues(c, key, et, values) ==
    LET e == getEntry(c, "FreeformEntry")
    IN IF e # 0
       THEN LET r == keyValue_adjust(entries[e].data.m, key, LeafAppend(et, values))
            IN Res(r.adjusted, [entries EXCEPT ![e].data.m = r.m], out, errc)
       ELSE NotFound

\* mutant: no writer rejects a write
writeFails_never(w) == FALSE

\* the writers the model hands to WithOutput; "bad" rejects every write
writeFails(w) == w = "bad"

\* mutant: the comma is written for the empty object too
metaPrefix_alwaysComma(level, now, comma) ==
    <<"{", Quote("@level"), ":", Quote(LevelString(level)), ",",
      Quote("@time"), ":", Quote(now), ",">>

\* the metadata print puts in place of the opening brace
metaPrefix(level, now, comma) ==
    <<"{", Quote("@level"), ":", Quote(LevelString(level)), ",",
      Quote("@time"), ":", Quote(now)>> \o (IF comma THEN <<",">> ELSE <<>>)

\* mutant: an entry at the print level is suppressed too
suppressed_atLevel(level, printLevel) == level <= printLevel

\* print's test of the entry's level against the print level
suppressed(level, printLevel) == level < printLevel

\* mutant: the newline is added to text that is not an object too
splice_newlineAlways(data, level, now) ==
    IF bytesIndex(data, "{") = 0
    THEN <<"{", Quote("@level"), ":", Quote(LevelString(level)), ",",
           Quote("@time"), ":", Quote(now)>>
         \o (IF bytesIndex(data, "}") # 1 THEN <<",">> ELSE <<>>)
         \o Tail(data) \o <<"\n">>
    ELSE data \o <<"\n">>

\* print's splice: a JSON object gets the metadata in place of its opening
\* brace and a newline after it; any other text is left as it is
splice(data, level, now) ==
    IF bytesIndex(data, "{") = 0
    THEN metaPrefix(level, now, bytesIndex(data, "}") # 1) \o Tail(data) \o <<"\n">>
    ELSE data

\* print[T] on the heap es; wall is what the system clock reads during the
\* call
printWith(es, c, shape, opts, wall) ==
    LET e == getEntry(c, shape)
    IN IF e # 0
       THEN LET options == applyOptions(opts)
                entry == es[e]
                j == Marshal(entry.data)
                now == FormatRFC3339(TimerNow(options.timer, wall))
                data == splice(j.data, entry.level, now)
            IN IF suppressed(entry.level, options.printLevel)
               THEN Res(FALSE, es, out, errc)
               ELSE IF j.err
                    THEN Res(FALSE, es, out,
                             Append(errc, "failed to marshal log entry to JSON"))
                    ELSE IF writeFails(options.out)
                         THEN Res(FALSE, es, out,
                                  Append(errc, "failed to write log entry"))
                         ELSE Res(TRUE, es,
                                  Append(out, [w |-> options.out, data |-> data]),
                                  errc)
       ELSE Res(FALSE, es, out, errc)

print(c, shape, opts, wall) == printWith(entries, c, shape, opts, wall)

\* mutant: the new entry starts from the data of the entry it shadows
addEntry_inherits(c, shape, opts) ==
    [entries |-> Append(entries,
                        [shape |-> shape,
                         level |-> applyOptions(opts).entryLevel,
                         data |-> IF getEntry(c, shape) # 0
                                  THEN entries[getEntry(c, shape)].data
                                  ELSE create(shape)]),
     ctxs |-> Append(ctxs, [parent |-> c, key |-> eKey, val |-> Len(entries) + 1])]

\* addEntry[T]: a fresh entry at the resolved entry level, and a new context
\* node on top of c that points to it
addEntry(c, shape, opts) ==
    [entries |-> Append(entries,
                        [shape |-> shape,
                         level |-> applyOptions(opts).entryLevel,
                         data |-> create(shape)]),
     ctxs |-> Append(ctxs, [parent |-> c, key |-> eKey, val |-> Len(entries) + 1])]

(***************************************************************************)
(* Actions: one per public call.  Each records the call in hist, with the  *)
(* state it was made in.                                                   *)
(***************************************************************************)
\* no goroutine has called yet
NoProcs == [calls |-> <<>>, fatal |-> FALSE, start |-> <<>>]

NoCall ==
    [op |-> "", ctx |-> 0, shape |-> "", key |-> "", et |-> "", args |-> <<>>,
     opts |-> <<>>, wall |-> ZeroTime, ok |-> FALSE, panicked |-> FALSE, ref |-> 0]

Before == [ctxs |-> ctxs, entries |-> entries, out |-> out, errc |-> errc]

Last2(h, rec) == IF Len(h) < 2 THEN Append(h, rec) ELSE <<h[2], rec>>

Commit(call, r, ref) ==
    /\ entries' = r.entries
    /\ out' = r.out
    /\ errc' = r.errc
    /\ hist' = Last2(hist, [call EXCEPT !.ok = r.ok, !.panicked = r.panicked,
                                        !.ref = ref] @@ [before |-> Before])
    /\ nops' = nops + 1
    /\ UNCHANGED <<ctxs, mws, reqs, procs>>

CallAddEntry(c, shape, opts) ==
    LET a == addEntry(c, shape, opts)
    IN /\ Len(ctxs) < MaxCtx
       /\ entries' = a.entries
       /\ ctxs' = a.ctxs
       /\ hist' = Last2(hist, [NoCall EXCEPT !.op = "AddEntry", !.ctx = c,
                                             !.shape = shape, !.opts = opts,
                                             !.ok = TRUE, !.ref = Len(a.ctxs)]
                              @@ [before |-> Before])
       /\ nops' = nops + 1
       /\ UNCHANGED <<out, errc, mws, reqs, procs>>

CallDebug(c, shape) ==
    Commit([NoCall EXCEPT !.op = "Debug", !.ctx = c, !.shape = shape],
           debug(c, shape), 0)

CallInfo(c, shape) ==
    Commit([NoCall EXCEPT !.op = "Info", !.ctx = c, !.shape = shape],
           info(c, shape), 0)

CallWarn(c, shape) ==
    Commit([NoCall EXCEPT !.op = "Warn", !.ctx = c, !.shape = shape],
           warn(c, shape), 0)

CallError(c, shape) ==
    Commit([NoCall EXCEPT !.op = "Error", !.ctx = c, !.shape = shape],
           err(c, shape), 0)

CallFatal(c, shape) ==
    Commit([NoCall EXCEPT !.op = "Fatal", !.ctx = c, !.shape = shape],
           fatal(c, shape), 0)

CallGetEntry(c, shape) ==
    Commit([NoCall EXCEPT !.op = "GetEntry", !.ctx = c, !.shape = shape],
           Res(GetEntry(c, shape) # 0, entries, out, errc), GetEntry(c, shape))

\* Logger[T].Adjust for the structured shapes, the freeform Adjust otherwise
CallAdjust(c, shape, fns) ==
    Commit([NoCall EXCEPT !.op = "Adjust", !.ctx = c, !.shape = shape, !.args = fns],
           IF shape = "FreeformEntry" THEN Adjust(c, fns) ELSE adjust(c, shape, fns),
           0)

CallAdd(c, args) ==
    Commit([NoCall EXCEPT !.op = "Add", !.ctx = c, !.shape = "FreeformEntry",
                          !.args = args],
           Add(c, args), 0)

CallAppend(c, key, et, values) ==
    Commit([NoCall EXCEPT !.op = "Append", !.ctx = c, !.shape = "FreeformEntry",
                          !.key = key, !.et = et, !.args = values],
           AppendValues(c, key, et, values), 0)

\* a write the caller makes through the pointer GetEntry returned: the
\* mutation f applied to the value entry ref owns
CallWrite(ref, f) ==
    Commit([NoCall EXCEPT !.op = "Write", !.shape = entries[ref].shape,
                          !.args = <<f>>],
           Res(TRUE, [entries EXCEPT ![ref].data = applyFn(@, f)], out, errc),
           ref)

CallPrint(c, shape, opts, wall) ==
    Commit([NoCall EXCEPT !.op = "Print", !.ctx = c, !.shape = shape,
                          !.opts = opts, !.wall = wall],
           print(c, shape, opts, wall), 0)

(***************************************************************************)
(* The middlewares.  Middleware(opts...) and Logger[T].Middleware(opts...) *)
(* resolve their options once, when the middleware is built.               *)
(***************************************************************************)
Middleware(opts) ==
    [kind |-> "freeform", shape |-> "FreeformEntry", opts |-> opts,
     opt |-> applyOptions(opts)]

Logger_Middleware(shape, opts) ==
    [kind |-> "logger", shape |-> shape, opts |-> opts, opt |-> applyOptions(opts)]

\* kind "freeform" is the package's Middleware, kind "logger" the Middleware
\* of a Logger of the given shape
NewMiddleware(kind, shape, opts) ==
    /\ mws' = Append(mws, IF kind = "freeform"
                          THEN Middleware(opts)
                          ELSE Logger_Middleware(shape, opts))
    /\ UNCHANGED <<ctxs, entries, out, errc, hist, nops, reqs, procs>>

(***************************************************************************)
(* Requests.  A request has a method, a path, headers (each name with its  *)
(* values) and a body, a sequence of bytes the handler reads through       *)
(* r.Body.                                                                 *)
(***************************************************************************)
Request(method, path, header, body) ==
    [Method |-> method, Path |-> path, Header |-> header, Body |-> body]

\* textproto.CanonicalMIMEHeaderKey on the names the model uses
CanonicalMIMEHeaderKey(h) ==
    CASE h = "x-header" -> "X-Header"
      [] OTHER -> h

\* r.Header.Get(h): the first value under the canonical form of h, or ""
Header_Get(header, h) ==
    LET k == CanonicalMIMEHeaderKey(h)
    IN IF k \in DOMAIN header /\ Len(header[k]) > 0 THEN header[k][1] ELSE ""

\* buf.String()
RECURSIVE String(_)
String(bytes) == IF Len(bytes) = 0 THEN "" ELSE Head(bytes) \o String(Tail(bytes))

\* the logger value Set stores under lKey, one per shape
Logger(shape) ==
    CASE shape = "FreeformEntry" -> 1
      [] shape = "List" -> 2

\* Logger[T].Set: a new context node on top of c that holds the logger
Set(c, shape) == Append(ctxs, [parent |-> c, key |-> lKey, val |-> Logger(shape)])

\* mutant: Get[T] finds a logger in every context
Get_always(c, shape) == TRUE

\* Get[T]: whether the logger of that shape is found from c
Get(c, shape) == ctxValue(c, lKey) = Logger(shape)

\* the bytes a Read with a buffer of n bytes takes from the body of request q
Read(q, n) ==
    SubSeq(q.r.Body, q.pos + 1,
           IF q.pos + n < Len(q.r.Body) THEN q.pos + n ELSE Len(q.r.Body))

\* mutant: the watcher keeps the bytes of the latest Read only
bodyWatcher_Read_keepsLatest(q, n) ==
    LET p == Read(q, n)
    IN [q EXCEPT !.pos = @ + Len(p), !.got = @ \o p, !.buf = p]

\* bodyWatcher.Read: the wrapped reader's Read, its bytes copied to buf
bodyWatcher_Read(q, n) ==
    LET p == Read(q, n)
    IN [q EXCEPT !.pos = @ + Len(p), !.got = @ \o p,
                 !.buf = IF Len(p) > 0 THEN @ \o p ELSE @]

\* the handler's r.Body.Read: through the watcher when Middleware put one in
Body_Read(q, n) ==
    IF q.watched
    THEN bodyWatcher_Read(q, n)
    ELSE [q EXCEPT !.pos = @ + Len(Read(q, n)), !.got = @ \o Read(q, n)]

Range(f) == {f[x] : x \in DOMAIN f}

\* mutant: all-headers is looked at before the header list
httpHeaders_allFirst(opt, r) ==
    IF opt.allHeaders
    THEN [k \in DOMAIN r.Header |-> Header_Get(r.Header, k)]
    ELSE IF Len(opt.someHeaders) > 0
         THEN [h \in Range(opt.someHeaders) |-> Header_Get(r.Header, h)]
         ELSE <<>>

\* data.Headers as Middleware fills it
httpHeaders(opt, r) ==
    IF Len(opt.someHeaders) > 0
    THEN [h \in Range(opt.someHeaders) |-> Header_Get(r.Header, h)]
    ELSE IF opt.allHeaders
         THEN [k \in DOMAIN r.Header |-> Header_Get(r.Header, k)]
         ELSE <<>>

NoFin ==
    [level |-> 0, data |-> Nil, nout |-> 0, ok |-> FALSE,
     since |-> ZeroTime, now |-> ZeroTime]

\* mutant: a request served while another is in progress gets the context
\* and entry of the first request
ServeHTTP_sharedEntry(m, r, wall) ==
    LET mw == mws[m]
        a == addEntry(0, mw.shape, <<Options(mw.opt)>>)
        shared == Len(reqs) > 0
    IN /\ ctxs' = IF shared THEN ctxs ELSE a.ctxs
       /\ entries' = IF shared THEN entries ELSE a.entries
       /\ reqs' = Append(reqs,
                         [mw |-> m, r |-> r,
                          ctx |-> IF shared THEN reqs[1].ctx ELSE Len(a.ctxs),
                          wall |-> wall,
                          start |-> TimerNow(mw.opt.timer, wall),
                          watched |-> mw.kind = "freeform" /\ mw.opt.body,
                          buf |-> <<>>, pos |-> 0, got |-> <<>>,
                          pc |-> "handler",
                          steps |-> <<"Now", "AddEntry", "next.ServeHTTP">>,
                          fin |-> NoFin])
       /\ hist' = Last2(hist, [NoCall EXCEPT !.op = "ServeHTTP", !.shape = mw.shape,
                                             !.ok = TRUE, !.ref = Len(ctxs')]
                              @@ [before |-> Before])
       /\ UNCHANGED <<out, errc, nops, mws, procs>>

\* the handler function of a middleware up to its call of next.ServeHTTP,
\* on a request whose context is context.Background(); wall is what the
\* system clock reads
ServeHTTP(m, r, wall) ==
    LET mw == mws[m]
        base == IF mw.kind = "logger" THEN Set(0, mw.shape) ELSE ctxs
        c0 == IF mw.kind = "logger" THEN Len(base) ELSE 0
        a == addEntry(c0, mw.shape, <<Options(mw.opt)>>)
    IN /\ ctxs' = Append(base, a.ctxs[Len(a.ctxs)])
       /\ entries' = a.entries
       /\ reqs' = Append(reqs,
                         [mw |-> m, r |-> r, ctx |-> Len(base) + 1,
                          wall |-> wall,
                          start |-> TimerNow(mw.opt.timer, wall),
                          watched |-> mw.kind = "freeform" /\ mw.opt.body,
                          buf |-> <<>>, pos |-> 0, got |-> <<>>,
                          pc |-> "handler",
                          steps |-> IF mw.kind = "freeform"
                                    THEN <<"Now", "AddEntry", "next.ServeHTTP">>
                                    ELSE <<"Set", "AddEntry", "next.ServeHTTP">>,
                          fin |-> NoFin])
       /\ hist' = Last2(hist, [NoCall EXCEPT !.op = "ServeHTTP", !.shape = mw.shape,
                                             !.ok = TRUE, !.ref = Len(base) + 1]
                              @@ [before |-> Before])
       /\ UNCHANGED <<out, errc, nops, mws, procs>>

\* the handler's Read on the request body with a buffer of n bytes
HandlerRead(i, n) ==
    /\ reqs[i].pc = "handler"
    /\ reqs' = [reqs EXCEPT ![i] = Body_Read(@, n)]
    /\ nops' = nops + 1
    /\ UNCHANGED <<ctxs, entries, out, errc, hist, mws, procs>>

\* mutant: the Middleware of a Logger writes the HTTP data too
Return_writesHttp(i, since, now) ==
    LET q == reqs[i]
        mw == mws[q.mw]
        data == HttpData(q.r.Method, q.r.Path, httpHeaders(mw.opt, q.r),
                         IF mw.opt.body THEN String(q.buf) ELSE "",
                         TimerSince(mw.opt.timer, q.start, since))
        added == Add(q.ctx, <<StrV("@http"), data>>)
        p == printWith(added.entries, q.ctx, mw.shape, <<Options(mw.opt)>>, now)
    IN /\ q.pc = "handler"
       /\ Sub(since, q.wall) >= 0
       /\ Sub(now, since) >= 0
       /\ entries' = p.entries
       /\ out' = p.out
       /\ errc' = p.errc
       /\ reqs' = [reqs EXCEPT ![i] =
                      [q EXCEPT !.pc = "done",
                                !.steps = @ \o (IF mw.kind = "freeform"
                                                THEN <<"Since", "Add", "Print">>
                                                ELSE <<"Print">>),
                                !.fin = [level |-> entries[getEntry(q.ctx, mw.shape)].level,
                                         data |-> entries[getEntry(q.ctx, mw.shape)].data,
                                         nout |-> Len(out), ok |-> p.ok,
                                         since |-> since, now |-> now]]]
       /\ hist' = Last2(hist, [NoCall EXCEPT !.op = "Return", !.ctx = q.ctx,
                                             !.shape = mw.shape, !.ok = p.ok]
                              @@ [before |-> Before])
       /\ UNCHANGED <<ctxs, nops, mws, procs>>

\* the handler function of a middleware from the return of next.ServeHTTP
\* on; since and now are what the system clock reads when the duration is
\* taken and when the entry is printed
Return(i, since, now) ==
    LET q == reqs[i]
        mw == mws[q.mw]
        data == HttpData(q.r.Method, q.r.Path, httpHeaders(mw.opt, q.r),
                         IF mw.opt.body THEN String(q.buf) ELSE "",
                         TimerSince(mw.opt.timer, q.start, since))
        added == IF mw.kind = "freeform"
                 THEN Add(q.ctx, <<StrV("@http"), data>>)
                 ELSE Res(TRUE, entries, out, errc)
        p == printWith(added.entries, q.ctx, mw.shape, <<Options(mw.opt)>>, now)
    IN /\ q.pc = "handler"
       /\ Sub(since, q.wall) >= 0
       /\ Sub(now, since) >= 0
       /\ entries' = p.entries
       /\ out' = p.out
       /\ errc' = p.errc
       /\ reqs' = [reqs EXCEPT ![i] =
                      [q EXCEPT !.pc = "done",
                                !.steps = @ \o (IF mw.kind = "freeform"
                                                THEN <<"Since", "Add", "Print">>
                                                ELSE <<"Print">>),
                                !.fin = [level |-> entries[getEntry(q.ctx, mw.shape)].level,
                                         data |-> entries[getEntry(q.ctx, mw.shape)].data,
                                         nout |-> Len(out), ok |-> p.ok,
                                         since |-> since, now |-> now]]]
       /\ hist' = Last2(hist, [NoCall EXCEPT !.op = "Return", !.ctx = q.ctx,
                                             !.shape = mw.shape, !.ok = p.ok]
                              @@ [before |-> Before])
       /\ UNCHANGED <<ctxs, nops, mws, procs>>

(***************************************************************************)
(* Spec: contexts, entries of two shapes, levels and printing.             *)
(***************************************************************************)
Shapes == {"FreeformEntry", "List"}

Contexts == 0..Len(ctxs)

EntryOpts == {<<>>, <<WithDefaultLevel(DEBUG)>>, <<WithDefaultLevel(FATAL + 1)>>}

PrintOpts ==
    {<<>>,
     <<WithCurrentTime(ZeroTime)>>,
     <<WithLevel(DEBUG), WithOutput("buf")>>,
     <<WithLevel(ERROR)>>,
     <<WithOutput("bad")>>}

Walls == {[sec |-> 0, nsec |-> 1], [sec |-> 1, nsec |-> 0]}

FnsOf(shape) ==
    IF shape = "List"
    THEN {<<>>, <<Push(StrV("x"))>>}
    ELSE {<<>>, <<Put("a", Chan)>>}

AddArgs == {<<StrV("a"), IntV(1)>>, <<StrV("a.b"), StrV("x")>>}

Init ==
    /\ ctxs = <<>>
    /\ entries = <<>>
    /\ out = <<>>
    /\ errc = <<>>
    /\ hist = <<>>
    /\ nops = 0
    /\ mws = <<>>
    /\ reqs = <<>>
    /\ procs = NoProcs

DoAddEntry ==
    /\ nops < MaxOps
    /\ \E c \in Contexts, shape \in Shapes, opts \in EntryOpts :
          CallAddEntry(c, shape, opts)

DoDebug == nops < MaxOps /\ \E c \in Contexts, shape \in Shapes : CallDebug(c, shape)

DoInfo == nops < MaxOps /\ \E c \in Contexts, shape \in Shapes : CallInfo(c, shape)

DoWarn == nops < MaxOps /\ \E c \in Contexts, shape \in Shapes : CallWarn(c, shape)

DoError == nops < MaxOps /\ \E c \in Contexts, shape \in Shapes : CallError(c, shape)

DoFatal == nops < MaxOps /\ \E c \in Contexts, shape \in Shapes : CallFatal(c, shape)

DoGetEntry ==
    nops < MaxOps /\ \E c \in Contexts, shape \in Shapes : CallGetEntry(c, shape)

DoAdjust ==
    /\ nops < MaxOps
    /\ \E c \in Contexts, shape \in Shapes :
          \E fns \in FnsOf(shape) : CallAdjust(c, shape, fns)

DoAdd == nops < MaxOps /\ \E c \in Contexts, args \in AddArgs : CallAdd(c, args)

DoAppend ==
    nops < MaxOps /\ \E c \in Contexts : CallAppend(c, "a", "string", <<StrV("x")>>)

DoPrint ==
    /\ nops < MaxOps
    /\ \E c \in Contexts, shape \in Shapes, opts \in PrintOpts, wall \in Walls :
          CallPrint(c, shape, opts, wall)

Next ==
    \/ DoAddEntry
    \/ DoDebug
    \/ DoInfo
    \/ DoWarn
    \/ DoError
    \/ DoFatal
    \/ DoGetEntry
    \/ DoAdjust
    \/ DoAdd
    \/ DoAppend
    \/ DoPrint

Spec == Init /\ [][Next]_vars

(***************************************************************************)
(* SpecFreeform: one freeform entry, attached to context 1 by AddEntry,    *)
(* under Add and Append with dotted keys and values of every kind, and     *)
(* printed.                                                                *)
(***************************************************************************)
FKeys == {"a", "a.b", "a.b.c", "b", "@level"}

FValues ==
    {IntV(1), StrV("x"), Nil,
     Slice("string", <<StrV("s")>>),
     MapAny([b |-> IntV(2)]),
     FreeformEntry([b |-> IntV(2)]),
     FreeformEntry([b |-> Slice("string", <<StrV("s")>>), c |-> IntV(2)])}

\* the pairs of the two-pair Add calls
PairKeys == {"a", "a.b"}
PairValues == {IntV(1), StrV("x")}

FAppends ==
    {[et |-> "string", values |-> <<>>],
     [et |-> "string", values |-> <<StrV("t")>>],
     [et |-> "string", values |-> <<StrV("t"), StrV("u")>>],
     [et |-> "int", values |-> <<IntV(3)>>]}

FPrintOpts == {<<>>, <<WithCurrentTime(ZeroTime)>>}

InitFreeform ==
    /\ ctxs = <<[parent |-> 0, key |-> eKey, val |-> 1]>>
    /\ entries = <<[shape |-> "FreeformEntry", level |-> INFO,
                    data |-> newFreeformEntry]>>
    /\ out = <<>>
    /\ errc = <<>>
    /\ hist = <<>>
    /\ nops = 0
    /\ mws = <<>>
    /\ reqs = <<>>
    /\ procs = NoProcs

FAdd1 ==
    nops < MaxCalls /\ \E k \in FKeys, v \in FValues : CallAdd(1, <<StrV(k), v>>)

FAdd2 ==
    /\ nops < MaxCalls
    /\ \E k1 \in PairKeys, k2 \in PairKeys, v1 \in PairValues, v2 \in PairValues :
          CallAdd(1, <<StrV(k1), v1, StrV(k2), v2>>)

FAppend ==
    /\ nops < MaxCalls
    /\ \E k \in FKeys, a \in FAppends : CallAppend(1, k, a.et, a.values)

FPrint ==
    /\ nops < MaxCalls
    /\ \E opts \in FPrintOpts, wall \in Walls : CallPrint(1, "FreeformEntry", opts, wall)

\* argument lists of other shapes: an odd number of arguments, none at all
FOddArgs ==
    {<<>>, <<StrV("a")>>, <<IntV(1)>>,
     <<StrV("a"), IntV(1), StrV("b")>>,
     <<StrV("a"), IntV(1), IntV(2)>>}

FAddOdd == nops < MaxCalls /\ \E args \in FOddArgs : CallAdd(1, args)

\* pairs whose key argument is not a string, and pairs with the key ""
FKeyArgs ==
    {<<IntV(1), StrV("x")>>,
     <<IntV(1), StrV("x"), StrV("a"), IntV(1)>>,
     <<StrV("a.b"), IntV(1), Nil, StrV("x")>>,
     <<StrV(""), IntV(1)>>,
     <<StrV(""), StrV("x"), BoolV(TRUE), IntV(1)>>}

FAddKey == nops < MaxCalls /\ \E args \in FKeyArgs : CallAdd(1, args)

NextFreeform == FAdd1 \/ FAdd2 \/ FAddOdd \/ FAddKey \/ FAppend \/ FPrint

SpecFreeform == InitFreeform /\ [][NextFreeform]_vars

(***************************************************************************)
(* SpecAdjust: a freeform entry at context 1 and an entry of a             *)
(* Logger[[]string] at context 2, under Adjust with lists of mutators,     *)
(* GetEntry, writes through the pointer GetEntry returned, and Print.      *)
(***************************************************************************)
AFns(shape) ==
    LET pool == IF shape = "List"
                THEN {Push(StrV("x")), Push(StrV("s"))}
                ELSE {Put("a", IntV(1)), Put("a", IntV(2)), Put("b", IntV(1))}
    IN UNION {[1..n -> pool] : n \in 0..2}

AShape(c) == IF c = 1 THEN "FreeformEntry" ELSE "List"

InitAdjust ==
    /\ ctxs = <<[parent |-> 0, key |-> eKey, val |-> 1],
                [parent |-> 0, key |-> eKey, val |-> 2]>>
    /\ entries = <<[shape |-> "FreeformEntry", level |-> INFO,
                    data |-> newFreeformEntry],
                   [shape |-> "List", level |-> INFO, data |-> NewList]>>
    /\ out = <<>>
    /\ errc = <<>>
    /\ hist = <<>>
    /\ nops = 0
    /\ mws = <<>>
    /\ reqs = <<>>
    /\ procs = NoProcs

AAdjust ==
    /\ nops < MaxOps
    /\ \E c \in {1, 2} : \E fns \in AFns(AShape(c)) : CallAdjust(c, AShape(c), fns)

AGetEntry == nops < MaxOps /\ \E c \in {1, 2} : CallGetEntry(c, AShape(c))

\* the caller writes through a pointer one of its last two calls got
AWrite ==
    /\ nops < MaxOps
    /\ \E i \in DOMAIN hist :
          /\ hist[i].op = "GetEntry"
          /\ hist[i].ref # 0
          /\ \E f \in AFns(hist[i].shape) :
                Len(f) = 1 /\ CallWrite(hist[i].ref, f[1])

APrint ==
    /\ nops < MaxOps
    /\ \E c \in {1, 2} :
          CallPrint(c, AShape(c), <<WithCurrentTime(ZeroTime)>>, ZeroTime)

NextAdjust == AAdjust \/ AGetEntry \/ AWrite \/ APrint

SpecAdjust == InitAdjust /\ [][NextAdjust]_vars

(***************************************************************************)
(* SpecRace: goroutines that hold the context of one freeform entry and    *)
(* call Add and Append on it with no lock around the calls.  The map of    *)
(* the entry is shared; each access of it by the closures of Add and       *)
(* Append is one step: Add's store m[k] = v, and Append's lookup of m[k],  *)
(* its type assertion of m[k] and its store.  The keys have one segment,   *)
(* so every access is to the root map.  Unsynchronized accesses of a Go    *)
(* map are a data race: besides the interleavings of the steps, the        *)
(* runtime may stop the process (fatal error: concurrent map writes).      *)
(***************************************************************************)
MaxProcs == 2

\* Add(ctx, key, value): after toKeyValues the call is at its store
GoAdd(key, value) ==
    [op |-> "Add", key |-> key, et |-> "", values |-> <<>>, value |-> value,
     pc |-> "store", existing |-> Nil, ok |-> TRUE, overlapped |-> FALSE]

\* Append[T](ctx, key, values...): the closure starts at its lookup, with
\* adjusted false
GoAppend(key, et, values) ==
    [op |-> "Append", key |-> key, et |-> et, values |-> values, value |-> Nil,
     pc |-> "exists", existing |-> Nil, ok |-> FALSE, overlapped |-> FALSE]

InFlight(c) == c.pc # "done"

\* append(existing, values...)
\* mutant: the new sequence holds the new values only
appendTo_dropsExisting(existing, values) == Slice(existing.et, values)

appendTo(existing, values) == Slice(existing.et, existing.elems \o values)

RaceCalls ==
    {GoAdd("a", IntV(1)), GoAdd("a", Slice("string", <<StrV("x")>>)),
     GoAppend("a", "string", <<StrV("t")>>),
     GoAppend("a", "string", <<StrV("u")>>),
     GoAppend("a", "int", <<IntV(3)>>),
     GoAppend("b", "string", <<StrV("t")>>)}

RaceStarts == {EmptyMap, [a |-> Slice("string", <<StrV("s")>>)]}

InitRace ==
    /\ ctxs = <<[parent |-> 0, key |-> eKey, val |-> 1]>>
    /\ \E m \in RaceStarts :
          /\ entries = <<[shape |-> "FreeformEntry", level |-> INFO,
                          data |-> FreeformEntry(m)]>>
          /\ procs = [NoProcs EXCEPT !.start = m]
    /\ out = <<>>
    /\ errc = <<>>
    /\ hist = <<>>
    /\ nops = 0
    /\ mws = <<>>
    /\ reqs = <<>>

\* a goroutine calls; it overlaps every call that has not returned
Go ==
    /\ ~procs.fatal
    /\ Len(procs.calls) < MaxProcs
    /\ hist = <<>>
    /\ \E call \in RaceCalls :
          LET busy == \E i \in DOMAIN procs.calls : InFlight(procs.calls[i])
              old == [i \in DOMAIN procs.calls |->
                        [procs.calls[i] EXCEPT
                            !.overlapped = @ \/ InFlight(procs.calls[i])]]
          IN procs' = [procs EXCEPT
                          !.calls = Append(old, [call EXCEPT !.overlapped = busy])]
    /\ UNCHANGED <<ctxs, entries, out, errc, hist, nops, mws, reqs>>

\* if _, exists := m[k]; !exists
StepExists(i) ==
    LET c == procs.calls[i]
    IN /\ ~procs.fatal
       /\ c.pc = "exists"
       /\ procs' = [procs EXCEPT !.calls[i].pc =
                        IF c.key \in DOMAIN entries[1].data.m
                        THEN "assert" ELSE "store"]
       /\ UNCHANGED <<ctxs, entries, out, errc, hist, nops, mws, reqs>>

\* else if existing, ok := m[k].([]T); ok
StepAssert(i) ==
    LET c == procs.calls[i]
        v == entries[1].data.m[c.key]
    IN /\ ~procs.fatal
       /\ c.pc = "assert"
       /\ procs' = [procs EXCEPT !.calls[i] =
                        IF v.t = "slice" /\ v.et = c.et
                        THEN [c EXCEPT !.pc = "append", !.existing = v]
                        ELSE [c EXCEPT !.pc = "done"]]
       /\ UNCHANGED <<ctxs, entries, out, errc, hist, nops, mws, reqs>>

\* m[k] = kv.Value, m[k] = values, m[k] = append(existing, values...)
StepStore(i) ==
    LET c == procs.calls[i]
        v == IF c.op = "Add"
             THEN c.value
             ELSE IF c.pc = "store"
                  THEN Slice(c.et, c.values)
                  ELSE appendTo(c.existing, c.values)
    IN /\ ~procs.fatal
       /\ c.pc \in {"store", "append"}
       /\ entries' = [entries EXCEPT ![1].data.m = MapSet(@, c.key, v)]
       /\ procs' = [procs EXCEPT !.calls[i] = [c EXCEPT !.pc = "done", !.ok = TRUE]]
       /\ UNCHANGED <<ctxs, out, errc, hist, nops, mws, reqs>>

\* the runtime finds the map written while another goroutine accesses it
Fatal ==
    /\ ~procs.fatal
    /\ \E i, j \in DOMAIN procs.calls :
          /\ i # j
          /\ InFlight(procs.calls[i])
          /\ procs.calls[j].pc \in {"store", "append"}
    /\ procs' = [procs EXCEPT !.fatal = TRUE]
    /\ UNCHANGED <<ctxs, entries, out, errc, hist, nops, mws, reqs>>

\* Print once every call has returned
RPrint ==
    /\ ~procs.fatal
    /\ procs.calls # <<>>
    /\ \A i \in DOMAIN procs.calls : ~InFlight(procs.calls[i])
    /\ hist = <<>>
    /\ CallPrint(1, "FreeformEntry", <<WithCurrentTime(ZeroTime)>>, ZeroTime)

RExists == \E i \in DOMAIN procs.calls : StepExists(i)
RAssert == \E i \in DOMAIN procs.calls : StepAssert(i)
RStore == \E i \in DOMAIN procs.calls : StepStore(i)

NextRace == Go \/ RExists \/ RAssert \/ RStore \/ Fatal \/ RPrint

SpecRace == InitRace /\ [][NextRace]_vars

(***************************************************************************)
(* SpecStructured: the package-level generic functions of the              *)
(* structuredlogs build, beside Logger[T].Set and Logger[T].AddEntry.  T   *)
(* ranges over the two entry types of the model.  AddEntry[T], Print[T]    *)
(* and the level setters go through Get[T](ctx); GetEntry[T] and Adjust[T] *)
(* go straight to the entry.                                               *)
(***************************************************************************)
\* Logger[T].Set(ctx)
CallSet(c, shape) ==
    /\ Len(ctxs) < MaxCtx
    /\ ctxs' = Set(c, shape)
    /\ hist' = Last2(hist, [NoCall EXCEPT !.op = "Set", !.ctx = c, !.shape = shape,
                                          !.ok = TRUE, !.ref = Len(ctxs) + 1]
                           @@ [before |-> Before])
    /\ nops' = nops + 1
    /\ UNCHANGED <<entries, out, errc, mws, reqs, procs>>

\* AddEntry[T](ctx, opts...): logger.AddEntry if Get[T] finds a logger, the
\* context it was given otherwise
CallAddEntryT(c, shape, opts) ==
    LET a == addEntry(c, shape, opts)
        found == Get(c, shape)
    IN /\ Len(ctxs) < MaxCtx
       /\ entries' = IF found THEN a.entries ELSE entries
       /\ ctxs' = IF found THEN a.ctxs ELSE ctxs
       /\ hist' = Last2(hist, [NoCall EXCEPT !.op = "AddEntry[T]", !.ctx = c,
                                             !.shape = shape, !.opts = opts,
                                             !.ok = TRUE,
                                             !.ref = IF found THEN Len(a.ctxs) ELSE c]
                              @@ [before |-> Before])
       /\ nops' = nops + 1
       /\ UNCHANGED <<out, errc, mws, reqs, procs>>

\* Print[T](ctx, opts...)
CallPrintT(c, shape, opts, wall) ==
    Commit([NoCall EXCEPT !.op = "Print[T]", !.ctx = c, !.shape = shape,
                          !.opts = opts, !.wall = wall],
           IF Get(c, shape) THEN print(c, shape, opts, wall) ELSE NotFound, 0)

\* Debug[T], Info[T], Warn[T], Error[T], Fatal[T]
CallLevelT(c, shape, op) ==
    Commit([NoCall EXCEPT !.op = op \o "[T]", !.ctx = c, !.shape = shape],
           IF Get(c, shape)
           THEN CASE op = "Debug" -> debug(c, shape)
                  [] op = "Info" -> info(c, shape)
                  [] op = "Warn" -> warn(c, shape)
                  [] op = "Error" -> err(c, shape)
                  [] op = "Fatal" -> fatal(c, shape)
           ELSE NotFound, 0)

\* GetEntry[T](ctx)
CallGetEntryT(c, shape) ==
    Commit([NoCall EXCEPT !.op = "GetEntry[T]", !.ctx = c, !.shape = shape],
           Res(getEntry(c, shape) # 0, entries, out, errc), getEntry(c, shape))

\* Adjust[T](ctx, fns...)
CallAdjustT(c, shape, fns) ==
    LET e == getEntry(c, shape)
    IN Commit([NoCall EXCEPT !.op = "Adjust[T]", !.ctx = c, !.shape = shape,
                             !.args = fns],
              IF e # 0
              THEN Res(TRUE, [entries EXCEPT ![e].data = applyFns(@, fns)], out, errc)
              ELSE NotFound,
              0)

TFns(shape) ==
    IF shape = "List" THEN {<<Push(StrV("x"))>>} ELSE {<<Put("a", IntV(1))>>}

TPrintOpts == {<<WithCurrentTime(ZeroTime)>>, <<WithLevel(ERROR)>>}

TSet == nops < MaxOps /\ \E c \in Contexts, shape \in Shapes : CallSet(c, shape)

\* Logger[T].AddEntry, which needs no logger in the context
TLoggerAddEntry ==
    nops < MaxOps /\ \E c \in Contexts, shape \in Shapes : CallAddEntry(c, shape, <<>>)

TAddEntry ==
    nops < MaxOps /\ \E c \in Contexts, shape \in Shapes : CallAddEntryT(c, shape, <<>>)

TPrint ==
    /\ nops < MaxOps
    /\ \E c \in Contexts, shape \in Shapes, opts \in TPrintOpts :
          CallPrintT(c, shape, opts, ZeroTime)

TLevel ==
    /\ nops < MaxOps
    /\ \E c \in Contexts, shape \in Shapes :
          \E op \in {"Debug", "Info", "Warn", "Error", "Fatal"} : CallLevelT(c, shape, op)

TGetEntry ==
    nops < MaxOps /\ \E c \in Contexts, shape \in Shapes : CallGetEntryT(c, shape)

TAdjust ==
    /\ nops < MaxOps
    /\ \E c \in Contexts, shape \in Shapes :
          \E fns \in TFns(shape) : CallAdjustT(c, shape, fns)

NextStructured ==
    TSet \/ TLoggerAddEntry \/ TAddEntry \/ TPrint \/ TLevel \/ TGetEntry \/ TAdjust

SpecStructured == Init /\ [][NextStructured]_vars

(***************************************************************************)
(* SpecIsolation: requests served at the same time by the handler of one   *)
(* freeform Middleware, each in its own goroutine.  The steps of a         *)
(* request are the handler function up to next.ServeHTTP, the steps the    *)
(* application's handler takes with the request's context and body, and,   *)
(* after it returned, the step that ends with Add(ctx, "@http", data) and  *)
(* the step Print(ctx, options); the steps of different requests           *)
(* interleave in every order.                                              *)
(***************************************************************************)
MaxReqs == 2

IsoOpts ==
    {<<WithBody, WithAllHeaders, WithTiming(ZeroTime, 7)>>,
     <<WithBody, WithHeaders(<<"X-Header">>), WithLevel(ERROR)>>}

IsoRequests ==
    {Request("POST", "/path", [k \in {"X-Header"} |-> <<"x">>], <<"b", "a">>),
     Request("GET", "/other", [k \in {"X-Header", "Y-Header"} |-> <<"y">>], <<"r">>)}

IsoWall == [sec |-> 1, nsec |-> 0]

\* data.Duration, data.Body, data.Headers and Add(ctx, "@http", data)
ReturnAdd(i, since) ==
    LET q == reqs[i]
        mw == mws[q.mw]
        data == HttpData(q.r.Method, q.r.Path, httpHeaders(mw.opt, q.r),
                         IF mw.opt.body THEN String(q.buf) ELSE "",
                         TimerSince(mw.opt.timer, q.start, since))
        added == Add(q.ctx, <<StrV("@http"), data>>)
    IN /\ q.pc = "handler"
       /\ Sub(since, q.wall) >= 0
       /\ entries' = added.entries
       /\ reqs' = [reqs EXCEPT ![i] =
                      [q EXCEPT !.pc = "print",
                                !.steps = @ \o <<"Since", "Add">>,
                                !.fin = [NoFin EXCEPT
                                            !.data = entries[getEntry(q.ctx, mw.shape)].data,
                                            !.since = since]]]
       /\ hist' = Last2(hist, [NoCall EXCEPT !.op = "ReturnAdd", !.ctx = q.ctx,
                                             !.shape = mw.shape, !.ok = added.ok]
                              @@ [before |-> Before])
       /\ UNCHANGED <<ctxs, out, errc, nops, mws, procs>>

\* Print(ctx, options)
ReturnPrint(i, now) ==
    LET q == reqs[i]
        mw == mws[q.mw]
        p == printWith(entries, q.ctx, mw.shape, <<Options(mw.opt)>>, now)
    IN /\ q.pc = "print"
       /\ Sub(now, q.fin.since) >= 0
       /\ entries' = p.entries
       /\ out' = p.out
       /\ errc' = p.errc
       /\ reqs' = [reqs EXCEPT ![i] =
                      [q EXCEPT !.pc = "done",
                                !.steps = @ \o <<"Print">>,
                                !.fin = [@ EXCEPT
                                            !.level = entries[getEntry(q.ctx, mw.shape)].level,
                                            !.nout = Len(out), !.ok = p.ok,
                                            !.now = now]]]
       /\ hist' = Last2(hist, [NoCall EXCEPT !.op = "ReturnPrint", !.ctx = q.ctx,
                                             !.shape = mw.shape, !.ok = p.ok]
                              @@ [before |-> Before])
       /\ UNCHANGED <<ctxs, nops, mws, procs>>

IMiddleware ==
    /\ Len(mws) = 0
    /\ \E opts \in IsoOpts : NewMiddleware("freeform", "FreeformEntry", opts)

IServeHTTP ==
    /\ Len(mws) = 1
    /\ Len(reqs) < MaxReqs
    /\ \E r \in IsoRequests : ServeHTTP(1, r, IsoWall)

InHandler(i) == reqs[i].pc = "handler"

\* the handler of request i reads one more byte of the body
IRead ==
    \E i \in DOMAIN reqs :
        InHandler(i) /\ reqs[i].pos < Len(reqs[i].r.Body) /\ HandlerRead(i, 1)

\* the handler of request i records the number of its request, once
IAdd ==
    \E i \in DOMAIN reqs :
        /\ InHandler(i)
        /\ "a" \notin DOMAIN entries[getEntry(reqs[i].ctx, "FreeformEntry")].data.m
        /\ CallAdd(reqs[i].ctx, <<StrV("a"), IntV(i)>>)

IError ==
    \E i \in DOMAIN reqs :
        /\ InHandler(i)
        /\ entries[getEntry(reqs[i].ctx, "FreeformEntry")].level # ERROR
        /\ CallError(reqs[i].ctx, "FreeformEntry")

IReturnAdd == \E i \in DOMAIN reqs : ReturnAdd(i, IsoWall)

IReturnPrint == \E i \in DOMAIN reqs : ReturnPrint(i, IsoWall)

NextIsolation ==
    \/ IMiddleware
    \/ IServeHTTP
    \/ IRead
    \/ IAdd
    \/ IError
    \/ IReturnAdd
    \/ IReturnPrint

SpecIsolation == Init /\ [][NextIsolation]_vars

(***************************************************************************)
(* SpecOptions: option resolution.  One middleware is built from every     *)
(* list of up to MaxOpts options.                                          *)
(***************************************************************************)
MaxOpts == 3

OptionPool ==
    {WithOutput("buf"), WithOutput("bad"), WithLevel(DEBUG), WithLevel(ERROR),
     WithDefaultLevel(DEBUG), WithDefaultLevel(WARN),
     WithCurrentTime([sec |-> 1, nsec |-> 0]),
     WithTiming(ZeroTime, 7), WithTiming([sec |-> 1, nsec |-> 1], 3),
     WithBody, WithAllHeaders, WithHeaders(<<"X-Header">>)}

OptionLists == UNION {[1..n -> OptionPool] : n \in 0..MaxOpts}

OMiddleware ==
    /\ Len(mws) = 0
    /\ \E k \in {"freeform", "logger"}, opts \in OptionLists :
          NewMiddleware(k, "List", opts)

NextOptions == OMiddleware

SpecOptions == Init /\ [][NextOptions]_vars

(***************************************************************************)
(* SpecMiddleware: one middleware, freeform or of a Logger[[]string], takes *)
(* one request; the wrapped handler makes up to MaxCalls calls (reads of   *)
(* the body, Add, Adjust, level setters) and returns.                      *)
(***************************************************************************)
MwOpts ==
    {<<>>,
     <<WithTiming(ZeroTime, 7)>>,
     <<WithTiming(ZeroTime, 7), WithBody>>,
     <<WithBody, WithOutput("buf")>>,
     <<WithHeaders(<<"X-Header">>)>>,
     <<WithAllHeaders, WithHeaders(<<"x-header", "Y-Header">>)>>,
     <<WithAllHeaders, WithTiming([sec |-> 1, nsec |-> 0], 3)>>,
     <<WithHeaders(<<>>), WithAllHeaders>>,
     <<WithDefaultLevel(DEBUG)>>,
     <<WithLevel(DEBUG), WithDefaultLevel(DEBUG), WithBody, WithAllHeaders>>}

Requests ==
    {Request("POST", "/path", header, body) :
        header \in {<<>>, [k \in {"X-Header"} |-> <<"x", "z">>],
                    [k \in {"X-Header", "Y-Header"} |-> <<"y">>]},
        body \in {<<>>, <<"b", "a", "r">>}}

HandlerArgs == {<<StrV("a"), IntV(1)>>, <<StrV("@http"), StrV("x")>>}

Handling(i) == i \in DOMAIN reqs /\ reqs[i].pc = "handler" /\ nops < MaxCalls

\* the package's Middleware, and the Middleware of a Logger[[]string] and
\* of a Logger[FreeformEntry]
MwKinds ==
    {[kind |-> "freeform", shape |-> "FreeformEntry"],
     [kind |-> "logger", shape |-> "List"],
     [kind |-> "logger", shape |-> "FreeformEntry"]}

MMiddleware ==
    /\ Len(mws) = 0
    /\ \E k \in MwKinds, opts \in MwOpts : NewMiddleware(k.kind, k.shape, opts)

MServeHTTP ==
    /\ Len(mws) = 1
    /\ Len(reqs) = 0
    /\ \E r \in Requests, wall \in Walls : ServeHTTP(1, r, wall)

MRead == \E i \in DOMAIN reqs, n \in {1, 2} : Handling(i) /\ HandlerRead(i, n)

MAdd ==
    \E i \in DOMAIN reqs, args \in HandlerArgs :
        Handling(i) /\ CallAdd(reqs[i].ctx, args)

MAdjust ==
    \E i \in DOMAIN reqs :
        Handling(i) /\ CallAdjust(reqs[i].ctx, "List", <<Push(StrV("x"))>>)

MDebug ==
    \E i \in DOMAIN reqs : Handling(i) /\ CallDebug(reqs[i].ctx, mws[reqs[i].mw].shape)

MError ==
    \E i \in DOMAIN reqs : Handling(i) /\ CallError(reqs[i].ctx, mws[reqs[i].mw].shape)

MReturn == \E i \in DOMAIN reqs, since \in Walls, now \in Walls : Return(i, since, now)

NextMiddleware ==
    \/ MMiddleware
    \/ MServeHTTP
    \/ MRead
    \/ MAdd
    \/ MAdjust
    \/ MDebug
    \/ MError
    \/ MReturn

SpecMiddleware == Init /\ [][NextMiddleware]_vars

(***************************************************************************)
(* Reading the output back: a JSON parser over the lexemes, as             *)
(* encoding/json's decoder reads them (of two members with the same name   *)
(* the later one wins).  JSON values are tagged in field j.                *)
(***************************************************************************)
JNull == [j |-> "null"]
JStr(s) == [j |-> "string", s |-> s]
JNum(n) == [j |-> "number", n |-> n]
JBool(b) == [j |-> "bool", b |-> b]
JArr(elems) == [j |-> "array", elems |-> elems]
JObj(m) == [j |-> "object", m |-> m]

\* every string and number a document of the model can hold
JStrings ==
    {"", "@http", "@level", "@time", "a", "b", "c", "x", "s", "t", "u",
     "DEBUG", "INFO", "WARN", "ERROR", "FATAL", "UNKNOWN",
     "0001-01-01T00:00:00Z", "0001-01-01T00:00:01Z",
     "method", "path", "headers", "body", "duration", "POST", "/path",
     "X-Header", "Y-Header", "x-header", "y", "z", "ba", "bar",
     "GET", "/other", "r"}
JNumbers == 0..9 \cup {999999999}

isStringLexeme(l) == \E s \in JStrings : Quote(s) = l
unquote(l) == CHOOSE s \in JStrings : Quote(s) = l
isNumberLexeme(l) == \E n \in JNumbers : ToString(n) = l
number(l) == CHOOSE n \in JNumbers : ToString(n) = l

ParseFail == [ok |-> FALSE, v |-> JNull, rest |-> <<>>]
Parsed(v, rest) == [ok |-> TRUE, v |-> v, rest |-> rest]

RECURSIVE parseValue(_), parseElems(_, _), parseMembers(_, _)
parseValue(toks) ==
    IF Len(toks) = 0
    THEN ParseFail
    ELSE LET h == Head(toks)
             rest == Tail(toks)
         IN CASE h = "null" -> Parsed(JNull, rest)
              [] h = "true" -> Parsed(JBool(TRUE), rest)
              [] h = "false" -> Parsed(JBool(FALSE), rest)
              [] h = "[" ->
                    IF Len(rest) > 0 /\ Head(rest) = "]"
                    THEN Parsed(JArr(<<>>), Tail(rest))
                    ELSE parseElems(rest, <<>>)
              [] h = "{" ->
                    IF Len(rest) > 0 /\ Head(rest) = "}"
                    THEN Parsed(JObj(EmptyMap), Tail(rest))
                    ELSE parseMembers(rest, EmptyMap)
              [] isStringLexeme(h) -> Parsed(JStr(unquote(h)), rest)
              [] isNumberLexeme(h) -> Parsed(JNum(number(h)), rest)
              [] OTHER -> ParseFail

\* toks starts at an element; acc holds the elements read so far
parseElems(toks, acc) ==
    LET r == parseValue(toks)
    IN IF ~r.ok \/ Len(r.rest) = 0
       THEN ParseFail
       ELSE IF Head(r.rest) = "]"
            THEN Parsed(JArr(Append(acc, r.v)), Tail(r.rest))
            ELSE IF Head(r.rest) = ","
                 THEN parseElems(Tail(r.rest), Append(acc, r.v))
                 ELSE ParseFail

\* toks starts at a member's name; m holds the members read so far
parseMembers(toks, m) ==
    IF Len(toks) < 2 \/ ~isStringLexeme(toks[1]) \/ toks[2] # ":"
    THEN ParseFail
    ELSE LET r == parseValue(Tail(Tail(toks)))
             m2 == MapSet(m, unquote(toks[1]), r.v)
         IN IF ~r.ok \/ Len(r.rest) = 0
            THEN ParseFail
            ELSE IF Head(r.rest) = "}"
                 THEN Parsed(JObj(m2), Tail(r.rest))
                 ELSE IF Head(r.rest) = ","
                      THEN parseMembers(Tail(r.rest), m2)
                      ELSE ParseFail

\* one JSON document: one value, and nothing but white space after it
parseDoc(data) ==
    LET r == parseValue(data)
    IN IF r.ok /\ r.rest \in {<<>>, <<"\n">>} THEN r ELSE ParseFail

\* the JSON value a Go value stands for
RECURSIVE toJSON(_)
toJSON(v) ==
    CASE v.t = "nil" -> JNull
      [] v.t = "string" -> JStr(v.s)
      [] v.t = "int" -> JNum(v.n)
      [] v.t = "bool" -> JBool(v.b)
      [] v.t = "slice" ->
            IF Len(v.elems) = 0
            THEN JNull
            ELSE JArr([i \in DOMAIN v.elems |-> toJSON(v.elems[i])])
      [] v.t \in {"map", "FreeformEntry"} ->
            JObj([k \in DOMAIN v.m |-> toJSON(v.m[k])])
      [] v.t = "HttpData" ->
            JObj([k \in {"method", "path", "duration"}
                        \cup (IF DOMAIN v.Headers # {} THEN {"headers"} ELSE {})
                        \cup (IF v.Body # "" THEN {"body"} ELSE {}) |->
                     CASE k = "method" -> JStr(v.Method)
                       [] k = "path" -> JStr(v.Path)
                       [] k = "duration" -> JNum(v.Duration)
                       [] k = "body" -> JStr(v.Body)
                       [] k = "headers" ->
                             JObj([h \in DOMAIN v.Headers |-> JStr(v.Headers[h])])])

(***************************************************************************)
(* Reading a call of hist: the state after it, the entry it was made on,   *)
(* and what its options resolve to, worked out from the option list.       *)
(***************************************************************************)
After(i) ==
    IF i = Len(hist)
    THEN [ctxs |-> ctxs, entries |-> entries, out |-> out, errc |-> errc]
    ELSE hist[i + 1].before

\* the nearest entry attached on c's branch in context tree cs, 0 if none
RECURSIVE nearestEntry(_, _)
nearestEntry(cs, c) ==
    IF c = 0
    THEN 0
    ELSE IF cs[c].key = "eKey" THEN cs[c].val ELSE nearestEntry(cs, cs[c].parent)

\* whether the call h found an entry of its shape
Resolvable(h) ==
    LET v == nearestEntry(h.before.ctxs, h.ctx)
    IN v # 0 /\ h.before.entries[v].shape = h.shape

EntryId(h) == nearestEntry(h.before.ctxs, h.ctx)
EntryBefore(h) == h.before.entries[EntryId(h)]

lastOption(opts, names) ==
    IF \E i \in DOMAIN opts : opts[i].o \in names
    THEN CHOOSE i \in DOMAIN opts :
             opts[i].o \in names /\ \A j \in DOMAIN opts : opts[j].o \in names => j <= i
    ELSE 0

ResolvedPrintLevel(opts) ==
    IF lastOption(opts, {"WithLevel"}) = 0
    THEN INFO
    ELSE opts[lastOption(opts, {"WithLevel"})].level

ResolvedOutput(opts) ==
    IF lastOption(opts, {"WithOutput"}) = 0
    THEN "stdout"
    ELSE opts[lastOption(opts, {"WithOutput"})].w

\* the instant timer.now() gives the call h
ResolvedNow(h) ==
    IF lastOption(h.opts, {"WithCurrentTime", "WithTiming"}) = 0
    THEN h.wall
    ELSE h.opts[lastOption(h.opts, {"WithCurrentTime", "WithTiming"})].now

PublicCalls ==
    {"Add", "Append", "Adjust", "GetEntry", "Debug", "Info", "Warn", "Error",
     "Fatal", "Print"}

SameCall(g, h) ==
    /\ g.op = h.op /\ g.ctx = h.ctx /\ g.shape = h.shape /\ g.key = h.key
    /\ g.et = h.et /\ g.args = h.args /\ g.opts = h.opts

\* a Print call that found its entry, was not suppressed, marshalled and wrote
Printed(h) ==
    /\ h.op = "Print"
    /\ Resolvable(h)
    /\ EntryBefore(h).level >= ResolvedPrintLevel(h.opts)
    /\ ~unsupported(EntryBefore(h).data)
    /\ ~writeFails(ResolvedOutput(h.opts))

\* what the call hist[i] wrote, when it wrote one thing
Written(i) == After(i).out[Len(After(i).out)].data

(***************************************************************************)
(* Claims                                                                  *)
(***************************************************************************)

\* C1: a public call (Add, Append, Adjust, GetEntry, a level setter, Print)
\* on a context where no entry of the call's shape is resolvable returns
\* false (nil for GetEntry) without panicking, leaves the contexts, every
\* entry, the sink and the error channel as they were, and the same call
\* made again right after it reports not-found again.
C1_NotFoundNoEffect ==
    \A i \in DOMAIN hist :
        LET h == hist[i]
        IN (h.op \in PublicCalls /\ ~Resolvable(h)) =>
              /\ ~h.ok
              /\ ~h.panicked
              /\ h.ref = 0
              /\ After(i) = h.before
              /\ (i < Len(hist) /\ SameCall(hist[i + 1], h)) => ~hist[i + 1].ok

\* Append made twice in a row on a context whose nearest entry has another
\* shape than FreeformEntry
C1_Witness ==
    /\ Len(hist) = 2
    /\ hist[1].op = "Append"
    /\ hist[2].op = "Append"
    /\ hist[1].ctx = hist[2].ctx
    /\ EntryId(hist[2]) # 0
    /\ ~Resolvable(hist[2])

\* C2: Print on an existing entry whose level is below the resolved print
\* level returns false and writes nothing; otherwise, when the data
\* marshals and the sink takes the write, it returns true and the sink
\* gains exactly one write, which is one JSON document.
C2_PrintThreshold ==
    \A i \in DOMAIN hist :
        LET h == hist[i]
        IN (h.op = "Print" /\ Resolvable(h)) =>
              IF EntryBefore(h).level < ResolvedPrintLevel(h.opts)
              THEN ~h.ok /\ After(i).out = h.before.out
              ELSE Printed(h) =>
                      /\ h.ok
                      /\ Len(After(i).out) = Len(h.before.out) + 1
                      /\ SubSeq(After(i).out, 1, Len(h.before.out)) = h.before.out
                      /\ parseDoc(Written(i)).ok

\* a Print suppressed by WithLevel, then a Print of the same entry that writes
C2_Witness ==
    /\ Len(hist) = 2
    /\ hist[1].op = "Print" /\ Resolvable(hist[1]) /\ ~hist[1].ok
    /\ EntryBefore(hist[1]).level < ResolvedPrintLevel(hist[1].opts)
    /\ hist[2].op = "Print" /\ hist[2].ok /\ Printed(hist[2])
    /\ hist[2].ctx = hist[1].ctx

\* whether the entry's data marshals to a JSON object
MarshalsToObject(v) == ~unsupported(v) /\ Head(encode(v)) = "{"

\* the prefix C3 names: the two metadata members, and a comma when the
\* object has members of its own
C3_Prefix(h) ==
    <<"{", "\"@level\"", ":", Quote(LevelString(EntryBefore(h).level)), ",",
      "\"@time\"", ":", Quote(FormatRFC3339(ResolvedNow(h)))>>
    \o (IF DOMAIN EntryBefore(h).data.m # {} THEN <<",">> ELSE <<>>)

\* C3 as stated: for an entry that marshals to a JSON object, the bytes
\* Print writes are the object with its opening brace replaced by the prefix
\* {"@level":"<LEVEL>","@time":"<RFC3339 of now>" and a comma iff the object
\* has a key of its own, and nothing else.
C3_Original ==
    \A i \in DOMAIN hist :
        LET h == hist[i]
        IN (Printed(h) /\ MarshalsToObject(EntryBefore(h).data)) =>
              Written(i) = C3_Prefix(h) \o Tail(encode(EntryBefore(h).data))

\* C3 amended: the bytes Print writes are the object with its opening brace
\* replaced by that prefix, followed by one newline.
C3_SplicedWithNewline ==
    \A i \in DOMAIN hist :
        LET h == hist[i]
        IN (Printed(h) /\ MarshalsToObject(EntryBefore(h).data)) =>
              Written(i) = C3_Prefix(h) \o Tail(encode(EntryBefore(h).data)) \o <<"\n">>

\* an Add, then a Print of the object with a key of its own, at an instant
\* that has a sub-second part
C3_Witness ==
    /\ Len(hist) = 2
    /\ hist[1].op = "Add" /\ hist[1].ok
    /\ Printed(hist[2])
    /\ MarshalsToObject(EntryBefore(hist[2]).data)
    /\ DOMAIN EntryBefore(hist[2]).data.m # {}
    /\ ResolvedNow(hist[2]).nsec = 1

\* C4: for an entry whose data marshals to JSON text that is not an object,
\* Print writes exactly that text: no metadata, no other byte.
C4_NonObjectUnmodified ==
    \A i \in DOMAIN hist :
        LET h == hist[i]
        IN (Printed(h) /\ ~MarshalsToObject(EntryBefore(h).data)) =>
              Written(i) = encode(EntryBefore(h).data)

\* a list entry that holds an element, printed
C4_Witness ==
    /\ Len(hist) = 2
    /\ hist[1].op = "Adjust" /\ hist[1].ok /\ hist[1].shape = "List"
    /\ Len(hist[1].args) = 1
    /\ Printed(hist[2])
    /\ hist[2].shape = "List"
    /\ Head(Written(2)) = "["

\* C5: parsing the document Print wrote gives, for an entry that marshals
\* to an object, exactly the entry's own top-level keys with their own
\* values plus @level (the entry's level) and @time (the timer's instant in
\* RFC3339), and for any other entry the entry's value with nothing added.
C5_RoundTrip ==
    \A i \in DOMAIN hist :
        LET h == hist[i]
            own == toJSON(EntryBefore(h).data)
            doc == parseDoc(Written(i))
        IN Printed(h) =>
              /\ doc.ok
              /\ IF MarshalsToObject(EntryBefore(h).data)
                 THEN /\ doc.v.j = "object"
                      /\ DOMAIN doc.v.m = DOMAIN own.m \cup {"@level", "@time"}
                      /\ \A k \in DOMAIN own.m : doc.v.m[k] = own.m[k]
                      /\ doc.v.m["@level"] = JStr(LevelString(EntryBefore(h).level))
                      /\ doc.v.m["@time"] = JStr(FormatRFC3339(ResolvedNow(h)))
                 ELSE doc.v = own

(***************************************************************************)
(* Reading an entry by dotted key: the value the key names in the entry's  *)
(* data, through nested mappings of either mapping type.                   *)
(***************************************************************************)
Absent == [t |-> "absent"]

isMapping(v) == v.t \in {"map", "FreeformEntry"}

RECURSIVE lookup(_, _)
lookup(m, split) ==
    IF Head(split) \notin DOMAIN m
    THEN Absent
    ELSE IF Len(split) = 1
         THEN m[Head(split)]
         ELSE IF isMapping(m[Head(split)])
              THEN lookup(m[Head(split)].m, Tail(split))
              ELSE Absent

\* m with the leaf at an existing path set to v and everything else kept
RECURSIVE putLeaf(_, _, _)
putLeaf(m, split, v) ==
    IF Len(split) = 1
    THEN MapSet(m, Head(split), v)
    ELSE MapSet(m, Head(split),
                [m[Head(split)] EXCEPT !.m = putLeaf(@, Tail(split), v)])

DataBefore(h) == EntryBefore(h).data.m
DataAfter(i) == After(i).entries[EntryId(hist[i])].data.m

\* a single-pair Add(k, v) that found the freeform entry
IsAdd1(h) ==
    /\ h.op = "Add" /\ Resolvable(h) /\ Len(h.args) = 2 /\ h.args[1].t = "string"

\* C6: Add(k, v1) followed by Add(k, v2) on the same entry leaves v2 at k,
\* and the entry is the one Add(k, v1) left with only the leaf at k changed.
C6_AddOverwrites ==
    (/\ Len(hist) = 2
     /\ IsAdd1(hist[1]) /\ IsAdd1(hist[2])
     /\ EntryId(hist[1]) = EntryId(hist[2])
     /\ hist[1].args[1] = hist[2].args[1])
    => LET split == Split(hist[2].args[1].s)
       IN /\ hist[1].ok /\ hist[2].ok
          /\ lookup(DataAfter(2), split) = hist[2].args[2]
          /\ DataAfter(2) = putLeaf(DataBefore(hist[2]), split, hist[2].args[2])

\* a two-segment key written twice with different values
C6_Witness ==
    /\ Len(hist) = 2
    /\ IsAdd1(hist[1]) /\ IsAdd1(hist[2])
    /\ hist[1].args[1] = hist[2].args[1]
    /\ hist[1].args[1].s = "a.b"
    /\ hist[1].args[2] # hist[2].args[2]

\* C7: Append(k, vs...) on a key absent from the entry returns true and
\* leaves the entry as Add(k, vs) leaves it, for every vs, the empty one
\* included.
C7_AppendAbsentIsAdd ==
    \A i \in DOMAIN hist :
        LET h == hist[i]
        IN (/\ h.op = "Append" /\ Resolvable(h)
            /\ lookup(DataBefore(h), Split(h.key)) = Absent)
           => /\ h.ok
              /\ DataAfter(i) =
                    keyValues_adjust(
                        DataBefore(h),
                        toKeyValues(<<StrV(h.key), Slice(h.et, h.args)>>).kvs)

\* Append with no values on an absent two-segment key whose first segment
\* holds a scalar
C7_Witness ==
    /\ Len(hist) = 2
    /\ hist[2].op = "Append"
    /\ hist[2].key = "a.b"
    /\ hist[2].args = <<>>
    /\ "a" \in DOMAIN DataBefore(hist[2])
    /\ ~isMapping(DataBefore(hist[2])["a"])
    /\ lookup(DataAfter(2), <<"a", "b">>) = Slice("string", <<>>)

\* C8: Append(k, vs...) on a key that holds a sequence of the requested
\* element type returns true and makes the leaf the old sequence followed by
\* vs; every other key of the entry is unchanged.
C8_AppendExtends ==
    \A i \in DOMAIN hist :
        LET h == hist[i]
            old == lookup(DataBefore(h), Split(h.key))
        IN (/\ h.op = "Append" /\ Resolvable(h)
            /\ old.t = "slice" /\ old.et = h.et)
           => /\ h.ok
              /\ DataAfter(i) =
                    putLeaf(DataBefore(h), Split(h.key),
                            Slice(h.et, old.elems \o h.args))

\* C9: Append(k, vs...) on a key that holds something else than a sequence
\* of the requested element type returns false and leaves the entry as it
\* was.
C9_AppendMismatchNoOp ==
    \A i \in DOMAIN hist :
        LET h == hist[i]
            old == lookup(DataBefore(h), Split(h.key))
        IN (/\ h.op = "Append" /\ Resolvable(h)
            /\ old # Absent
            /\ ~(old.t = "slice" /\ old.et = h.et))
           => /\ ~h.ok
              /\ After(i).entries = h.before.entries

\* a two-pair Add(k1, v1, k2, v2) that found the freeform entry
IsAdd2(h) ==
    /\ h.op = "Add" /\ Resolvable(h) /\ Len(h.args) = 4
    /\ h.args[1].t = "string" /\ h.args[3].t = "string"
    /\ h.args[1].t = "string" /\ h.args[3].t = "string"

\* what the call Add(k, v) alone makes of the data m
AddAlone(m, k, v) == keyValues_adjust(m, toKeyValues(<<k, v>>).kvs)

\* C10: Add with a list of pairs leaves the entry as one Add call per pair,
\* made in argument order, leaves it: a later pair overwrites an earlier
\* one at the same path, a later shorter path replaces the structure an
\* earlier pair created, and a later deeper path replaces an earlier scalar.
C10_AddPairsInOrder ==
    \A i \in DOMAIN hist :
        LET h == hist[i]
        IN IsAdd2(h) =>
              LET k1 == h.args[1].s
                  k2 == h.args[3].s
                  v2 == h.args[4]
              IN /\ h.ok
                 /\ DataAfter(i) =
                       AddAlone(AddAlone(DataBefore(h), h.args[1], h.args[2]),
                                h.args[3], v2)
                 /\ lookup(DataAfter(i), Split(k2)) = v2
                 /\ (k1 = "a.b" /\ k2 = "a") => DataAfter(i)["a"] = v2
                 /\ (k1 = "a" /\ k2 = "a.b") =>
                       DataAfter(i)["a"] = MapAny([b |-> v2])

\* a two-pair Add whose second pair writes the prefix of the first pair's key
C10_Witness ==
    /\ Len(hist) > 0
    /\ IsAdd2(hist[Len(hist)])
    /\ hist[Len(hist)].args[1].s = "a.b"
    /\ hist[Len(hist)].args[3].s = "a"
    /\ DataAfter(Len(hist))["a"] = hist[Len(hist)].args[4]

\* C11: no public call panics: for every argument list given to Add (any
\* length, odd or even, any key types) and for every Append, Adjust, level
\* setter and Print the call returns normally.
C11_NoPanic ==
    \A i \in DOMAIN hist : hist[i].op \in PublicCalls => ~hist[i].panicked

Setters == {"Debug", "Info", "Warn", "Error", "Fatal"}

SetterLevel(op) ==
    CASE op = "Debug" -> DEBUG
      [] op = "Info" -> INFO
      [] op = "Warn" -> WARN
      [] op = "Error" -> ERROR
      [] op = "Fatal" -> FATAL

ResolvedEntryLevel(opts) ==
    IF lastOption(opts, {"WithDefaultLevel"}) = 0
    THEN INFO
    ELSE opts[lastOption(opts, {"WithDefaultLevel"})].level

\* the level the call h gave its entry, for a setter or an AddEntry
LevelGiven(h) ==
    IF h.op = "AddEntry" THEN ResolvedEntryLevel(h.opts) ELSE SetterLevel(h.op)

\* whether the Print h was made on the entry the call g set the level of
PrintsEntryOf(g, h) ==
    /\ h.op = "Print" /\ Resolvable(h)
    /\ \/ g.op = "AddEntry" /\ EntryId(h) = Len(h.before.entries)
       \/ g.op \in Setters /\ Resolvable(g) /\ EntryId(g) = EntryId(h)

\* C12: an entry is created at INFO unless WithDefaultLevel says otherwise;
\* each of Debug/Info/Warn/Error/Fatal on a resolvable entry returns true
\* and sets exactly that level, whatever the level was, and changes nothing
\* else; no other call changes a level; and a Print right after depends on
\* that level only: suppressed iff it is below the print level, and @level
\* names it.
C12_LevelSetters ==
    \A i \in DOMAIN hist :
        LET h == hist[i]
        IN /\ h.op = "AddEntry" =>
                 /\ Len(After(i).entries) = Len(h.before.entries) + 1
                 /\ After(i).entries[Len(After(i).entries)].level =
                       ResolvedEntryLevel(h.opts)
           /\ (h.op \in Setters /\ Resolvable(h)) =>
                 /\ h.ok
                 /\ After(i).entries =
                       [h.before.entries EXCEPT ![EntryId(h)].level = SetterLevel(h.op)]
           /\ h.op \notin Setters \cup {"AddEntry"} =>
                 \A e \in DOMAIN h.before.entries :
                     After(i).entries[e].level = h.before.entries[e].level
           /\ (i = 2 /\ PrintsEntryOf(hist[1], h)) =>
                 LET L == LevelGiven(hist[1])
                 IN /\ EntryBefore(h).level = L
                    /\ L < ResolvedPrintLevel(h.opts) =>
                          ~h.ok /\ After(i).out = h.before.out
                    /\ (L >= ResolvedPrintLevel(h.opts) /\ Printed(h)) =>
                          /\ h.ok
                          /\ MarshalsToObject(EntryBefore(h).data) =>
                                parseDoc(Written(i)).v.m["@level"] = JStr(LevelString(L))

\* Scenario D: Debug lowers an entry, and the Print with the default print
\* level that follows writes nothing
C12_Witness ==
    /\ Len(hist) = 2
    /\ hist[1].op = "Debug" /\ hist[1].ok
    /\ EntryBefore(hist[1]).level > DEBUG
    /\ PrintsEntryOf(hist[1], hist[2])
    /\ hist[2].opts = <<>>
    /\ ~hist[2].ok

Levels == {DEBUG, INFO, WARN, ERROR, FATAL}

LevelNames == {"DEBUG", "INFO", "WARN", "ERROR", "FATAL"}

\* C13: in every reachable state every entry's level is one of the five
\* defined levels, whatever level was given at creation, and in every
\* document Print writes for an entry that marshals to an object the
\* @level member is one of the strings DEBUG, INFO, WARN, ERROR, FATAL.
C13_LevelIsDefined ==
    /\ \A e \in DOMAIN entries : entries[e].level \in Levels
    /\ \A i \in DOMAIN hist :
          (Printed(hist[i]) /\ MarshalsToObject(EntryBefore(hist[i]).data)) =>
             \E n \in LevelNames : Written(i)[4] = Quote(n)

\* C14: AddEntry returns a new context and leaves every context and entry
\* there was as it was: each older context resolves to the entry it resolved
\* to, with the same level and data; the new context resolves to a new entry
\* that holds a fresh constructor value whatever entry it shadows; and a call
\* made through the new context changes no older entry.
C14_AttachFrame ==
    \A i \in DOMAIN hist :
        LET h == hist[i]
            a == After(i)
            n == Len(h.before.ctxs)
        IN /\ h.op = "AddEntry" =>
                 /\ h.ref = n + 1
                 /\ Len(a.ctxs) = n + 1
                 /\ a.ctxs[n + 1].parent = h.ctx
                 /\ SubSeq(a.ctxs, 1, n) = h.before.ctxs
                 /\ SubSeq(a.entries, 1, Len(h.before.entries)) = h.before.entries
                 /\ \A c \in 0..n :
                       nearestEntry(a.ctxs, c) = nearestEntry(h.before.ctxs, c)
                 /\ nearestEntry(a.ctxs, h.ref) = Len(a.entries)
                 /\ Len(a.entries) = Len(h.before.entries) + 1
                 /\ a.entries[Len(a.entries)].shape = h.shape
                 /\ a.entries[Len(a.entries)].data = create(h.shape)
           /\ (i = 2 /\ hist[1].op = "AddEntry" /\ h.ctx = hist[1].ref) =>
                 \A e \in DOMAIN hist[1].before.entries :
                     a.entries[e] = hist[1].before.entries[e]

\* an entry attached on top of a context that resolves to an entry of the
\* same shape at another level, then an Add through the new context
C14_Witness ==
    /\ Len(hist) = 2
    /\ hist[1].op = "AddEntry"
    /\ nearestEntry(hist[1].before.ctxs, hist[1].ctx) # 0
    /\ hist[1].before.entries[nearestEntry(hist[1].before.ctxs, hist[1].ctx)].shape
          = hist[1].shape
    /\ hist[1].before.entries[nearestEntry(hist[1].before.ctxs, hist[1].ctx)].level
          # ResolvedEntryLevel(hist[1].opts)
    /\ hist[2].op = "Add" /\ hist[2].ok
    /\ hist[2].ctx = hist[1].ref

\* the nearest entry of the given shape attached on c's branch, 0 if none
RECURSIVE nearestOfShape(_, _, _, _)
nearestOfShape(cs, es, c, shape) ==
    IF c = 0
    THEN 0
    ELSE IF cs[c].key = "eKey" /\ es[cs[c].val].shape = shape
         THEN cs[c].val
         ELSE nearestOfShape(cs, es, cs[c].parent, shape)

\* C15: entries are keyed by their shape: GetEntry for shape T gives the
\* nearest entry of shape T attached on the context's branch, and nil exactly
\* when no entry of shape T was attached up the branch, also when an entry
\* of another shape was attached lower on the branch.
C15_KeyedByShape ==
    \A i \in DOMAIN hist :
        LET h == hist[i]
        IN h.op = "GetEntry" =>
              /\ h.ref = nearestOfShape(h.before.ctxs, h.before.entries, h.ctx, h.shape)
              /\ h.ok <=> h.ref # 0

\* the value the last option of one of the kinds in names gave field f,
\* or d when the list has none
LastSet(opts, names, f, d) ==
    IF lastOption(opts, names) = 0 THEN d ELSE opts[lastOption(opts, names)][f]

FixedTime == {"WithCurrentTime", "WithTiming"}

\* C16: the resolved options are the defaults (standard output, entry level
\* INFO, print level INFO, the wall-clock timer, no body, no headers) with,
\* for every field, the value of the last option of the list that sets it;
\* when the list has a fixed-time option the timer gives the last configured
\* instant from now() and the last configured duration (zero if none was)
\* from since(), whatever the clock reads and whatever the argument is.
C16_OptionResolution ==
    \A i \in DOMAIN mws :
        LET opts == mws[i].opts
            o == mws[i].opt
        IN /\ o.out = LastSet(opts, {"WithOutput"}, "w", "stdout")
           /\ o.entryLevel = LastSet(opts, {"WithDefaultLevel"}, "level", INFO)
           /\ o.printLevel = LastSet(opts, {"WithLevel"}, "level", INFO)
           /\ o.body = (\E j \in DOMAIN opts : opts[j].o = "WithBody")
           /\ o.allHeaders = (\E j \in DOMAIN opts : opts[j].o = "WithAllHeaders")
           /\ o.someHeaders = LastSet(opts, {"WithHeaders"}, "headers", <<>>)
           /\ \A wall \in Instants, t \in Instants :
                 IF \E j \in DOMAIN opts : opts[j].o \in FixedTime
                 THEN /\ TimerNow(o.timer, wall) = LastSet(opts, FixedTime, "now", ZeroTime)
                      /\ TimerSince(o.timer, t, wall) =
                            LastSet(opts, {"WithTiming"}, "since", 0)
                 ELSE /\ TimerNow(o.timer, wall) = wall
                      /\ TimerSince(o.timer, t, wall) = Sub(wall, t)

\* a list where WithCurrentTime comes after a WithTiming with another
\* instant, and an output is set last
C16_Witness ==
    \E i \in DOMAIN mws :
        /\ Len(mws[i].opts) = 3
        /\ mws[i].opts[1].o = "WithTiming"
        /\ mws[i].opts[2].o = "WithCurrentTime"
        /\ mws[i].opts[1].now # mws[i].opts[2].now
        /\ mws[i].opts[3].o = "WithOutput"
        /\ mws[i].opt.timer = fakeTimer(mws[i].opts[2].now, mws[i].opts[1].since)

(***************************************************************************)
(* Reading a request of reqs: its middleware, its entry, what it wrote.    *)
(***************************************************************************)
MwOf(q) == mws[q.mw]

\* the entry the middleware attached for request q
ReqEntry(q) == entries[ctxs[q.ctx].val]

\* whether the Print at the end of request q had to write: by the level the
\* handler left and the options the middleware was built with
MustWrite(q) ==
    /\ q.fin.level >= ResolvedPrintLevel(MwOf(q).opts)
    /\ ~writeFails(ResolvedOutput(MwOf(q).opts))

\* the write request q made, when it made one
ReqWrite(q) == out[q.fin.nout + 1]

\* the instant and the duration the timer of request q's middleware gives
ReqNow(q, wall) ==
    IF lastOption(MwOf(q).opts, FixedTime) = 0
    THEN wall
    ELSE LastSet(MwOf(q).opts, FixedTime, "now", ZeroTime)

ReqSince(q) ==
    IF lastOption(MwOf(q).opts, FixedTime) = 0
    THEN Sub(q.fin.since, q.wall)
    ELSE LastSet(MwOf(q).opts, {"WithTiming"}, "since", 0)

\* C17: for every request through the freeform Middleware: the start
\* instant is taken, then a fresh entry is attached at the configured entry
\* level, then the handler is invoked, once, with the derived context; after
\* it returned the duration since the start instant is computed, HttpData
\* is written under @http in place of whatever the handler stored there,
\* with every other key the handler left kept, and the entry is printed
\* once, with the options the middleware resolved: to the configured
\* output, against the configured print level, with the timer's instant;
\* the document holds every key of the entry.
C17_MiddlewareOrder ==
    \A i \in DOMAIN reqs :
        LET q == reqs[i]
            e == ReqEntry(q)
        IN MwOf(q).kind = "freeform" =>
              /\ SubSeq(q.steps, 1, 3) = <<"Now", "AddEntry", "next.ServeHTTP">>
              /\ ctxs[q.ctx].key = "eKey" /\ ctxs[q.ctx].parent = 0
              /\ q.start = ReqNow(q, q.wall)
              /\ (hist[Len(hist)].op = "ServeHTTP") =>
                    /\ q.pc = "handler"
                    /\ e = [shape |-> "FreeformEntry",
                            level |-> ResolvedEntryLevel(MwOf(q).opts),
                            data |-> newFreeformEntry]
              /\ q.pc = "handler" => Len(q.steps) = 3
              /\ q.pc = "done" =>
                    /\ q.steps = <<"Now", "AddEntry", "next.ServeHTTP",
                                   "Since", "Add", "Print">>
                    /\ DOMAIN e.data.m = DOMAIN q.fin.data.m \cup {"@http"}
                    /\ \A k \in DOMAIN q.fin.data.m \ {"@http"} :
                          e.data.m[k] = q.fin.data.m[k]
                    /\ e.data.m["@http"].t = "HttpData"
                    /\ e.data.m["@http"].Method = q.r.Method
                    /\ e.data.m["@http"].Path = q.r.Path
                    /\ e.data.m["@http"].Duration = ReqSince(q)
                    /\ e.level = q.fin.level
                    /\ IF MustWrite(q)
                       THEN /\ q.fin.ok
                            /\ Len(out) = q.fin.nout + 1
                            /\ ReqWrite(q).w = ResolvedOutput(MwOf(q).opts)
                            /\ LET doc == parseDoc(ReqWrite(q).data)
                               IN /\ doc.ok
                                  /\ DOMAIN doc.v.m =
                                        DOMAIN e.data.m \cup {"@level", "@time"}
                                  /\ \A k \in DOMAIN e.data.m :
                                        doc.v.m[k] = toJSON(e.data.m[k])
                                  /\ doc.v.m["@level"] = JStr(LevelString(e.level))
                                  /\ doc.v.m["@time"] =
                                        JStr(FormatRFC3339(ReqNow(q, q.fin.now)))
                       ELSE ~q.fin.ok /\ Len(out) = q.fin.nout

\* a request whose handler stored a value of its own under @http and another
\* key, served with the wall-clock timer and printed
C17_Witness ==
    \E i \in DOMAIN reqs :
        /\ reqs[i].pc = "done"
        /\ MwOf(reqs[i]).kind = "freeform"
        /\ MwOf(reqs[i]).opts = <<WithBody, WithOutput("buf")>>
        /\ reqs[i].fin.data.m = [k \in {"a", "@http"} |->
                                    IF k = "a" THEN IntV(1) ELSE StrV("x")]
        /\ reqs[i].fin.ok
        /\ ReqEntry(reqs[i]).data.m["@http"].Duration > 0
        /\ parseDoc(ReqWrite(reqs[i]).data).v.m["a"] = JNum(1)

ListedHeaders(q) == LastSet(MwOf(q).opts, {"WithHeaders"}, "headers", <<>>)

AllHeaders(q) == \E j \in DOMAIN MwOf(q).opts : MwOf(q).opts[j].o = "WithAllHeaders"

\* the first value request r carries for the header called name, whatever
\* the case name is written in; "" if it carries none
FirstValue(r, name) ==
    LET k == IF name = "x-header" THEN "X-Header" ELSE name
    IN IF k \in DOMAIN r.Header THEN r.Header[k][1] ELSE ""

\* the @http member of the document request q wrote
HttpMember(q) == parseDoc(ReqWrite(q).data).v.m["@http"].m

\* C18: in the freeform Middleware, when a header list (of at least one
\* name) is configured, @http.headers holds exactly the listed names, each
\* with the request's value for it, also when all-headers is configured;
\* otherwise, when all-headers is configured, it holds every header of the
\* request; otherwise @http has no headers.
C18_HeaderCapture ==
    \A i \in DOMAIN reqs :
        LET q == reqs[i]
            H == ReqEntry(q).data.m["@http"].Headers
        IN (MwOf(q).kind = "freeform" /\ q.pc = "done") =>
              /\ IF Len(ListedHeaders(q)) > 0
                 THEN /\ DOMAIN H = Range(ListedHeaders(q))
                      /\ \A h \in DOMAIN H : H[h] = FirstValue(q.r, h)
                 ELSE IF AllHeaders(q)
                      THEN /\ DOMAIN H = DOMAIN q.r.Header
                           /\ \A h \in DOMAIN H : H[h] = q.r.Header[h][1]
                      ELSE DOMAIN H = {}
              /\ MustWrite(q) =>
                    IF DOMAIN H = {}
                    THEN "headers" \notin DOMAIN HttpMember(q)
                    ELSE HttpMember(q)["headers"] =
                            JObj([h \in DOMAIN H |-> JStr(H[h])])

\* a header list and all-headers together, on a request that carries a
\* header the list does not name: the document has the listed names only
C18_Witness ==
    \E i \in DOMAIN reqs :
        /\ reqs[i].pc = "done"
        /\ MwOf(reqs[i]).kind = "freeform"
        /\ AllHeaders(reqs[i])
        /\ ListedHeaders(reqs[i]) = <<"x-header", "Y-Header">>
        /\ DOMAIN reqs[i].r.Header = {"X-Header", "Y-Header"}
        /\ reqs[i].fin.ok
        /\ DOMAIN HttpMember(reqs[i])["headers"].m = {"x-header", "Y-Header"}

BodyCapture(q) == \E j \in DOMAIN MwOf(q).opts : MwOf(q).opts[j].o = "WithBody"

\* C19: in the freeform Middleware the handler gets, with body capture and
\* without, the bytes of the request body in order, as far as it reads;
\* with body capture the body recorded in @http is exactly the bytes the
\* handler's Read calls returned, in order (a prefix of the body when it
\* stops early, empty when it reads nothing); without it no body is
\* recorded.
C19_BodyCapture ==
    \A i \in DOMAIN reqs :
        LET q == reqs[i]
        IN MwOf(q).kind = "freeform" =>
              /\ q.got = SubSeq(q.r.Body, 1, q.pos)
              /\ BodyCapture(q) => q.buf = q.got
              /\ q.pc = "done" =>
                    LET B == ReqEntry(q).data.m["@http"].Body
                    IN /\ B = IF BodyCapture(q) THEN String(q.got) ELSE ""
                       /\ MustWrite(q) =>
                             IF B = ""
                             THEN "body" \notin DOMAIN HttpMember(q)
                             ELSE HttpMember(q)["body"] = JStr(B)

\* body capture on a request with body "bar" whose handler made two reads of
\* one byte each and stopped: the document records "ba"
C19_Witness ==
    \E i \in DOMAIN reqs :
        /\ reqs[i].pc = "done"
        /\ MwOf(reqs[i]).kind = "freeform"
        /\ BodyCapture(reqs[i])
        /\ reqs[i].r.Body = <<"b", "a", "r">>
        /\ reqs[i].got = <<"b", "a">>
        /\ nops = 2
        /\ reqs[i].fin.ok
        /\ HttpMember(reqs[i])["body"] = JStr("ba")

\* C20: the Middleware of a Logger[T], for every request, puts the logger
\* and a fresh entry of shape T at the configured level in the request
\* context, invokes the handler once, then prints the entry once with the
\* resolved options; whatever options it was built with, it leaves the
\* entry as the handler left it (no @http, body, headers or duration), so
\* the document holds exactly the handler's data.
C20_LoggerMiddleware ==
    \A i \in DOMAIN reqs :
        LET q == reqs[i]
            e == ReqEntry(q)
            T == MwOf(q).shape
        IN MwOf(q).kind = "logger" =>
              /\ SubSeq(q.steps, 1, 3) = <<"Set", "AddEntry", "next.ServeHTTP">>
              /\ Get(q.ctx, T)
              /\ getEntry(q.ctx, T) = ctxs[q.ctx].val
              /\ e.shape = T
              /\ (hist[Len(hist)].op = "ServeHTTP") =>
                    /\ e.level = ResolvedEntryLevel(MwOf(q).opts)
                    /\ e.data = create(T)
              /\ q.pc = "handler" => Len(q.steps) = 3
              /\ q.pc = "done" =>
                    /\ q.steps = <<"Set", "AddEntry", "next.ServeHTTP", "Print">>
                    /\ e.data = q.fin.data
                    /\ e.level = q.fin.level
                    /\ IF MustWrite(q)
                       THEN /\ q.fin.ok
                            /\ Len(out) = q.fin.nout + 1
                            /\ ReqWrite(q).w = ResolvedOutput(MwOf(q).opts)
                            /\ LET doc == parseDoc(ReqWrite(q).data)
                               IN /\ doc.ok
                                  /\ IF T = "FreeformEntry"
                                     THEN /\ DOMAIN doc.v.m =
                                               DOMAIN q.fin.data.m
                                                  \cup {"@level", "@time"}
                                          /\ \A k \in DOMAIN q.fin.data.m :
                                                doc.v.m[k] = toJSON(q.fin.data.m[k])
                                     ELSE doc.v = toJSON(q.fin.data)
                       ELSE ~q.fin.ok /\ Len(out) = q.fin.nout

\* the Middleware of a Logger[FreeformEntry] built with body and header
\* capture, on a request with a body and headers whose handler read the body
\* and added a key: the document has that key and no @http
C20_Witness ==
    \E i \in DOMAIN reqs :
        /\ reqs[i].pc = "done"
        /\ MwOf(reqs[i]) = Logger_Middleware("FreeformEntry",
                               <<WithLevel(DEBUG), WithDefaultLevel(DEBUG),
                                 WithBody, WithAllHeaders>>)
        /\ reqs[i].got # <<>>
        /\ DOMAIN reqs[i].r.Header # {}
        /\ reqs[i].fin.ok
        /\ DOMAIN parseDoc(ReqWrite(reqs[i]).data).v.m = {"@level", "@time", "a"}

\* whether the data holds a value JSON cannot express (a channel)
RECURSIVE HoldsChannel(_)
HoldsChannel(v) ==
    CASE v.t = "chan" -> TRUE
      [] v.t = "slice" -> \E j \in DOMAIN v.elems : HoldsChannel(v.elems[j])
      [] v.t \in {"map", "FreeformEntry"} -> \E k \in DOMAIN v.m : HoldsChannel(v.m[k])
      [] OTHER -> FALSE

\* whether the sink the options of Print h name rejects writes
SinkRejects(h) == ResolvedOutput(h.opts) = "bad"

\* a Print that found its entry at a level that passes the print level
Attempted(h) ==
    /\ h.op = "Print"
    /\ Resolvable(h)
    /\ EntryBefore(h).level >= ResolvedPrintLevel(h.opts)

\* C21: when the entry's data cannot be marshalled, Print reports one
\* message to the error channel, returns false and writes nothing to any
\* sink; every entry keeps its level and data.
C21_MarshalFailure ==
    \A i \in DOMAIN hist :
        LET h == hist[i]
        IN (Attempted(h) /\ HoldsChannel(EntryBefore(h).data)) =>
              /\ ~h.ok
              /\ After(i).out = h.before.out
              /\ Len(After(i).errc) = Len(h.before.errc) + 1
              /\ After(i).errc[Len(After(i).errc)] = "failed to marshal log entry to JSON"
              /\ After(i).entries = h.before.entries

\* an Adjust that stores a channel in a freeform entry, then its Print to a
\* sink that takes writes
C21_Witness ==
    /\ Len(hist) = 2
    /\ hist[1].op = "Adjust" /\ hist[1].ok /\ Len(hist[1].args) = 1
    /\ Attempted(hist[2])
    /\ EntryId(hist[2]) = EntryId(hist[1])
    /\ HoldsChannel(EntryBefore(hist[2]).data)
    /\ ~SinkRejects(hist[2])
    /\ Len(errc) = 1

\* C22: when the sink rejects the write, Print reports one message to the
\* error channel and returns false; Print returns true only if the sink took
\* the write; and the error channel gets a message exactly when marshalling
\* or the write fails: never from a call that found no entry, a suppressed
\* Print, a successful one, or any other call.
C22_WriteFailure ==
    \A i \in DOMAIN hist :
        LET h == hist[i]
            failed == Attempted(h) /\ (HoldsChannel(EntryBefore(h).data) \/ SinkRejects(h))
        IN /\ (Attempted(h) /\ ~HoldsChannel(EntryBefore(h).data) /\ SinkRejects(h)) =>
                 /\ ~h.ok
                 /\ After(i).out = h.before.out
                 /\ After(i).errc = Append(h.before.errc, "failed to write log entry")
           /\ (h.op = "Print" /\ h.ok) =>
                 /\ ~SinkRejects(h)
                 /\ Len(After(i).out) = Len(h.before.out) + 1
                 /\ After(i).out[Len(After(i).out)].w = ResolvedOutput(h.opts)
           /\ IF failed
              THEN Len(After(i).errc) = Len(h.before.errc) + 1
              ELSE After(i).errc = h.before.errc

\* a Print of an entry to the sink that rejects writes, then a Print of the
\* same entry to a sink that takes them
C22_Witness ==
    /\ Len(hist) = 2
    /\ Attempted(hist[1]) /\ SinkRejects(hist[1]) /\ ~hist[1].ok
    /\ hist[2].op = "Print" /\ hist[2].ok
    /\ hist[2].ctx = hist[1].ctx
    /\ Len(errc) = 1
    /\ Len(out) = 1

\* the mutations fns make of the value data, first to last
RECURSIVE InOrder(_, _)
InOrder(data, fns) ==
    IF Len(fns) = 0
    THEN data
    ELSE InOrder(IF Head(fns).fn = "put"
                 THEN [data EXCEPT !.m = MapSet(@, Head(fns).key, Head(fns).value)]
                 ELSE [data EXCEPT !.elems = @ \o <<Head(fns).value>>],
                 Tail(fns))

\* the entry a call changed: the one its pointer names, for a write through
\* a pointer, and the one its context resolves to otherwise
Target(h) == IF h.op = "Write" THEN h.ref ELSE EntryId(h)

\* C23: Adjust on an existing entry returns true, for an empty list of
\* mutators too, and leaves the entry's value as the mutators make it when
\* applied one at a time in argument order; GetEntry returns a pointer to
\* that same value, changing nothing, and a write through the pointer
\* changes that entry's value; the Print that follows an Adjust or such a
\* write serializes the value it left.
C23_AdjustInOrder ==
    \A i \in DOMAIN hist :
        LET h == hist[i]
        IN /\ (h.op = "Adjust" /\ Resolvable(h)) =>
                 /\ h.ok
                 /\ After(i).entries =
                       [h.before.entries EXCEPT ![EntryId(h)].data = InOrder(@, h.args)]
           /\ (h.op = "GetEntry" /\ Resolvable(h)) =>
                 /\ h.ref = EntryId(h)
                 /\ After(i).entries = h.before.entries
           /\ h.op = "Write" =>
                 After(i).entries =
                    [h.before.entries EXCEPT ![h.ref].data = InOrder(@, h.args)]
           /\ (/\ i = 2 /\ Printed(h)
               /\ hist[1].op \in {"Adjust", "Write"}
               /\ Target(hist[1]) = EntryId(h)) =>
                 LET v == InOrder(hist[1].before.entries[EntryId(h)].data, hist[1].args)
                     doc == parseDoc(Written(i))
                 IN /\ h.ok
                    /\ doc.ok
                    /\ IF h.shape = "FreeformEntry"
                       THEN \A k \in DOMAIN doc.v.m \ {"@level", "@time"} :
                               /\ k \in DOMAIN v.m
                               /\ doc.v.m[k] = toJSON(v.m[k])
                       ELSE doc.v = toJSON(v)
                    /\ h.shape = "FreeformEntry" =>
                          DOMAIN v.m \subseteq DOMAIN doc.v.m

\* an Adjust with two mutators that set the same key, then the Print that
\* shows the second one's value
C23_Witness ==
    /\ Len(hist) = 2
    /\ hist[1].op = "Adjust"
    /\ hist[1].args = <<Put("a", IntV(1)), Put("a", IntV(2))>>
    /\ Printed(hist[2])
    /\ EntryId(hist[2]) = EntryId(hist[1])
    /\ parseDoc(Written(2)).v.m["a"] = JNum(2)

\* the map one call leaves when nothing runs beside it
Alone(m, c) ==
    IF c.op = "Add"
    THEN MapSet(m, c.key, c.value)
    ELSE IF c.key \notin DOMAIN m
         THEN MapSet(m, c.key, Slice(c.et, c.values))
         ELSE IF m[c.key].t = "slice" /\ m[c.key].et = c.et
              THEN MapSet(m, c.key, Slice(c.et, m[c.key].elems \o c.values))
              ELSE m

\* the map the calls leave when each starts after the one before returned
RECURSIVE Sequentially(_, _)
Sequentially(m, calls) ==
    IF Len(calls) = 0 THEN m ELSE Sequentially(Alone(m, Head(calls)), Tail(calls))

AllReturned ==
    /\ ~procs.fatal
    /\ procs.calls # <<>>
    /\ \A i \in DOMAIN procs.calls : ~InFlight(procs.calls[i])

NoOverlap == \A i \in DOMAIN procs.calls : ~procs.calls[i].overlapped

\* C24: when the calls of Add and Append on one entry are issued one after
\* the other, each starting after the one before returned, the entry holds
\* every mutation applied in calling order, and the Print that follows
\* writes exactly that; a lost update needs calls that overlap.
C24_SequentialReflected ==
    (AllReturned /\ NoOverlap) =>
        LET m == Sequentially(procs.start, procs.calls)
        IN /\ entries[1].data.m = m
           /\ hist # <<>> =>
                 LET doc == parseDoc(Written(1))
                 IN /\ hist[1].ok
                    /\ doc.ok
                    /\ DOMAIN doc.v.m = DOMAIN m \cup {"@level", "@time"}
                    /\ \A k \in DOMAIN m : doc.v.m[k] = toJSON(m[k])

\* two overlapping Appends to one key that both read the old sequence: both
\* return true, and the document printed afterwards lacks the value of the
\* one that stored first
C24_Witness ==
    /\ AllReturned
    /\ Len(procs.calls) = 2
    /\ procs.calls[1].op = "Append" /\ procs.calls[2].op = "Append"
    /\ procs.calls[1].key = "a" /\ procs.calls[2].key = "a"
    /\ procs.calls[1].values = <<StrV("t")>>
    /\ procs.calls[2].values = <<StrV("u")>>
    /\ procs.calls[1].ok /\ procs.calls[2].ok
    /\ procs.calls[1].existing = procs.calls[2].existing
    /\ procs.calls[1].existing = Slice("string", <<StrV("s")>>)
    /\ hist # <<>>
    /\ parseDoc(Written(1)).v.m["a"] = JArr(<<JStr("s"), JStr("u")>>)
    /\ entries[1].data.m # Sequentially(procs.start, procs.calls)

\* the proper prefixes of a split key, shortest first
Prefixes(split) == {SubSeq(split, 1, n) : n \in 1..(Len(split) - 1)}

\* a single-pair Add or an Append, on a key of several segments, that found
\* the freeform entry
IsDotted(h) ==
    /\ \/ IsAdd1(h)
       \/ h.op = "Append" /\ Resolvable(h)
    /\ Len(Split(IF h.op = "Add" THEN h.args[1].s ELSE h.key)) > 1

SplitOf(h) == Split(IF h.op = "Add" THEN h.args[1].s ELSE h.key)

\* C25: for every segment before the last of the key of an Add or Append:
\* afterwards the segment holds a mapping; if it held a mapping before, of
\* either mapping type, every key of that mapping other than the next
\* segment is still there with its value; if it was absent or held something
\* else, the mapping there holds at most the next segment.
C25_Traversal ==
    \A i \in DOMAIN hist :
        IsDotted(hist[i]) =>
            \A p \in Prefixes(SplitOf(hist[i])) :
                LET old == lookup(DataBefore(hist[i]), p)
                    new == lookup(DataAfter(i), p)
                    next == SplitOf(hist[i])[Len(p) + 1]
                IN /\ isMapping(new)
                   /\ isMapping(old) =>
                         \A k \in DOMAIN old.m \ {next} :
                             k \in DOMAIN new.m /\ new.m[k] = old.m[k]
                   /\ ~isMapping(old) => DOMAIN new.m \subseteq {next}

\* C26: an Add or Append with a key of several segments makes a new map
\* for exactly the proper prefixes of the key that did not resolve to a
\* mapping before the call: one for each segment before the last when
\* the first segment was absent, none for prefixes that held a mapping.
C26_MappingsMade ==
    \A i \in DOMAIN hist :
        LET h == hist[i]
        IN IsDotted(h) =>
              keyValue_adjust(DataBefore(h), IF h.op = "Add" THEN h.args[1].s ELSE h.key,
                              IF h.op = "Add"
                              THEN LeafSet(h.args[2])
                              ELSE LeafAppend(h.et, h.args)).made
              = Cardinality({p \in Prefixes(SplitOf(h)) :
                                ~isMapping(lookup(DataBefore(h), p))})

RECURSIVE PairsApplied(_, _)
PairsApplied(m, args) ==
    IF Len(args) < 2
    THEN m
    ELSE PairsApplied(IF args[1].t = "string"
                      THEN AddAlone(m, args[1], args[2])
                      ELSE MapSet(m, "", Nil),
                      SubSeq(args, 3, Len(args)))

\* an Add with whole pairs that found the freeform entry, one of the keys
\* not a string
HasBadKey(h) ==
    /\ h.op = "Add" /\ Resolvable(h)
    /\ Len(h.args) % 2 = 0
    /\ \E j \in 1..(Len(h.args) \div 2) : h.args[2 * j - 1].t # "string"

\* C28: Add with a pair whose key argument is not a string returns true and
\* leaves the entry as its pairs applied in order leave it, where the pair
\* with the bad key puts null at the top-level key "", over what was there,
\* and its value appears nowhere; when that pair is the last one to write
\* "", the key holds null afterwards.
C28_NonStringKey ==
    \A i \in DOMAIN hist :
        LET h == hist[i]
            n == Len(h.args) \div 2
        IN HasBadKey(h) =>
              /\ h.ok /\ ~h.panicked
              /\ DataAfter(i) = PairsApplied(DataBefore(h), h.args)
              /\ "" \in DOMAIN DataAfter(i)
              /\ (h.args[2 * n - 1].t # "string") => DataAfter(i)[""] = Nil
              /\ \A j \in 1..n :
                    h.args[2 * j - 1].t = "string" =>
                       \/ lookup(DataAfter(i), Split(h.args[2 * j - 1].s)) = h.args[2 * j]
                       \/ h.args[2 * j - 1].s = ""

\* the key "" holds a value, then an Add whose first key is a number and
\* whose second pair is well formed: "" holds null, the second pair is
\* applied, and the Print-ready data holds the value of the first pair
\* nowhere
C28_Witness ==
    /\ Len(hist) = 2
    /\ "" \in DOMAIN DataBefore(hist[2])
    /\ DataBefore(hist[2])[""] = IntV(1)
    /\ hist[2].op = "Add"
    /\ hist[2].args = <<IntV(1), StrV("x"), StrV("a"), IntV(1)>>
    /\ hist[2].ok
    /\ DataAfter(2) = [a |-> IntV(1)] @@ ("" :> Nil)

\* the logger a context's branch holds nearest to c in tree cs, 0 if none
RECURSIVE nearestLogger(_, _)
nearestLogger(cs, c) ==
    IF c = 0
    THEN 0
    ELSE IF cs[c].key = "lKey" THEN cs[c].val ELSE nearestLogger(cs, cs[c].parent)

\* whether the call h had a Logger of its shape in its context
HasLogger(h) ==
    LET l == nearestLogger(h.before.ctxs, h.ctx)
    IN l # 0 /\ ((l = 1) <=> (h.shape = "FreeformEntry"))

ViaLogger ==
    {"Print[T]", "Debug[T]", "Info[T]", "Warn[T]", "Error[T]", "Fatal[T]"}

\* C29: without a Logger[T] in the context, AddEntry[T] returns the context
\* it was given and attaches nothing, and Print[T] and the level setters
\* return false and leave the entries and the outputs as they were, also
\* when an entry of shape T is attached; with a Logger[T] there, AddEntry[T]
\* returns a new context that holds a new entry of shape T and the setters
\* succeed on an entry of shape T; GetEntry[T] and Adjust[T] find the entry
\* exactly when the nearest entry has shape T, logger or not.
C29_NeedsLogger ==
    \A i \in DOMAIN hist :
        LET h == hist[i]
            unchanged == /\ After(i).ctxs = h.before.ctxs
                         /\ After(i).entries = h.before.entries
                         /\ After(i).out = h.before.out
                         /\ After(i).errc = h.before.errc
        IN /\ (h.op = "AddEntry[T]" /\ ~HasLogger(h)) => (h.ref = h.ctx /\ unchanged)
           /\ (h.op = "AddEntry[T]" /\ HasLogger(h)) =>
                 /\ h.ref = Len(h.before.ctxs) + 1
                 /\ After(i).ctxs[h.ref].parent = h.ctx
                 /\ After(i).ctxs[h.ref].key = "eKey"
                 /\ After(i).entries[After(i).ctxs[h.ref].val].shape = h.shape
                 /\ Len(After(i).entries) = Len(h.before.entries) + 1
           /\ (h.op \in ViaLogger /\ ~HasLogger(h)) => (~h.ok /\ unchanged)
           /\ (h.op \in ViaLogger \ {"Print[T]"} /\ HasLogger(h)) =>
                 (h.ok <=> Resolvable(h))
           /\ h.op = "GetEntry[T]" =>
                 h.ref = IF Resolvable(h) THEN EntryId(h) ELSE 0
           /\ h.op = "Adjust[T]" =>
                 /\ h.ok <=> Resolvable(h)
                 /\ Resolvable(h) =>
                       After(i).entries[EntryId(h)].data =
                          InOrder(EntryBefore(h).data, h.args)

\* an entry of shape T attached through Logger[T].AddEntry, at a level that
\* Print would let through, and no logger in the context: Warn[T] and then
\* Print[T] return false and nothing is written
C29_Witness ==
    /\ Len(hist) = 2
    /\ hist[1].op = "Warn[T]" /\ hist[2].op = "Print[T]"
    /\ hist[1].ctx = hist[2].ctx /\ hist[1].shape = hist[2].shape
    /\ Resolvable(hist[2])
    /\ ~HasLogger(hist[2])
    /\ hist[2].opts = <<WithCurrentTime(ZeroTime)>>
    /\ EntryBefore(hist[2]).level = INFO
    /\ ~hist[1].ok /\ ~hist[2].ok
    /\ out = <<>>

\* the headers the document of request q has to show, by the options of
\* its middleware and the headers of its own request
OwnHeaders(q) ==
    IF Len(ListedHeaders(q)) > 0
    THEN [h \in Range(ListedHeaders(q)) |-> JStr(FirstValue(q.r, h))]
    ELSE IF AllHeaders(q)
         THEN [h \in DOMAIN q.r.Header |-> JStr(q.r.Header[h][1])]
         ELSE <<>>

\* the requests that have printed
Wrote == {i \in DOMAIN reqs : reqs[i].pc = "done" /\ reqs[i].fin.ok}

\* C30: for requests served at the same time by one Middleware, under
\* every interleaving of their steps: no two requests share an entry; the
\* body buffer of a request holds the bytes its own handler read of its own
\* body; the entry holds the mutation of its own handler only; a request
\* that finished wrote exactly when its print level lets its entry through,
\* and its document holds its own method and path, its own headers, the
\* body its own handler read and its own handler's mutation, and no other
\* key; every write to the sink is the whole document of exactly one
\* request.
C30_Isolation ==
    /\ \A i \in DOMAIN reqs :
          LET q == reqs[i]
              e == ReqEntry(q)
          IN /\ \A j \in DOMAIN reqs : j # i => ctxs[reqs[j].ctx].val # ctxs[q.ctx].val
             /\ q.got = SubSeq(q.r.Body, 1, q.pos)
             /\ q.buf = q.got
             /\ "a" \in DOMAIN e.data.m => e.data.m["a"] = IntV(i)
             /\ q.pc = "done" =>
                   /\ q.fin.ok <=> MustWrite(q)
                   /\ q.fin.ok =>
                         LET doc == parseDoc(ReqWrite(q).data)
                             own == IF "a" \in DOMAIN e.data.m THEN {"a"} ELSE {}
                         IN /\ doc.ok
                            /\ DOMAIN doc.v.m = {"@level", "@time", "@http"} \cup own
                            /\ own # {} => doc.v.m["a"] = JNum(i)
                            /\ HttpMember(q)["method"] = JStr(q.r.Method)
                            /\ HttpMember(q)["path"] = JStr(q.r.Path)
                            /\ HttpMember(q)["headers"] = JObj(OwnHeaders(q))
                            /\ IF q.got = <<>>
                               THEN "body" \notin DOMAIN HttpMember(q)
                               ELSE HttpMember(q)["body"] = JStr(String(q.got))
    /\ Len(out) = Cardinality(Wrote)
    /\ \A k \in DOMAIN out :
          /\ parseDoc(out[k].data).ok
          /\ Cardinality({i \in Wrote : reqs[i].fin.nout + 1 = k}) = 1

\* two different requests in progress at once, each handler having read
\* its body and recorded its number, the one served second printing first:
\* two documents, each with its own request's data
C30_Witness ==
    /\ Len(reqs) = 2
    /\ Wrote = {1, 2}
    /\ reqs[1].r.Method = "POST" /\ reqs[2].r.Method = "GET"
    /\ reqs[2].fin.nout = 0 /\ reqs[1].fin.nout = 1
    /\ reqs[1].got = <<"b", "a">> /\ reqs[2].got = <<"r">>
    /\ "a" \in DOMAIN ReqEntry(reqs[1]).data.m
    /\ "a" \in DOMAIN ReqEntry(reqs[2]).data.m
    /\ parseDoc(out[1].data).v.m["a"] = JNum(2)
    /\ parseDoc(out[2].data).v.m["a"] = JNum(1)
    /\ HttpMember(reqs[1])["body"] = JStr("ba")
    /\ HttpMember(reqs[2])["body"] = JStr("r")
    /\ HttpMember(reqs[1])["headers"] # HttpMember(reqs[2])["headers"]

====
